---- MODULE Spec2Model ----
(***************************************************************************)
(* Airlock backend gateway: provider runners (Tatum / Ankr `_request`),    *)
(* chain routing, TON seqno, broadcast and the /prices aggregator.         *)
(* Time is counted in quarter seconds so that 1.5^attempt is an integer.   *)
(***************************************************************************)
EXTENDS Integers, Sequences, FiniteSets, TLC

\* ------------------------------------------------------------------------
\* Bounds of the model
\* ------------------------------------------------------------------------
NumCallers == 3

Callers == 1..NumCallers

\* Concurrent /prices requests
NumPriceReqs == 2

PriceReqs == 1..NumPriceReqs

\* Upstream calls open at the same time.
NumUpCalls == 2
UpCalls == 1..NumUpCalls

\* sign_tx packets the device receives.
MaxSignReqs == 2
SignReqs == 1..MaxSignReqs

\* Symbols are kept as their hyphen-separated parts: "BTC" is <<"BTC">>.
\* BTC is listed everywhere, TRX stands for the two symbols Binance is not
\* asked for, and a symbol with a hyphen is one that no ticker lists.
Symbols == {<<"BTC">>, <<"TRX">>, <<"ZZZ", "X">>}

Min(a, b) == IF a < b THEN a ELSE b
Max(a, b) == IF a > b THEN a ELSE b

\* ------------------------------------------------------------------------
\* Provider runner: TatumProvider._request / AnkrProvider._request
\* (the two bodies are the same; they differ in _rate_limit only)
\* ------------------------------------------------------------------------
VARIABLES
    provider,       \* which runner this behaviour is about: "tatum" or "ankr"
    sem,            \* value of the provider's asyncio.Semaphore
    elapsed,        \* time.time() - self._last_req_time, saturated at _rate_limit
    pc,             \* per call: position inside _request
    attempt,        \* per call: loop variable `attempt`
    timer,          \* per call: remaining time of the spacing sleep
    sleep_seconds,  \* per call: duration handed to the pending backoff sleep
    holds,          \* per call: TRUE while inside `async with self.sem`
    result,         \* per call: how _request ended
    cancelledIn     \* per call: the position at which a cancellation arrived

runnerVars == <<provider, sem, elapsed, pc, attempt, timer, sleep_seconds,
                holds, result, cancelledIn>>

\* Solana history: TatumProvider._get_sol_transactions
VARIABLES
    sol_pc,         \* "idle", "signatures", "details" or "done"
    sol_sigs,       \* sig_list: res_sigs["result"], "" for an item without signature
    sol_first,      \* the _request call for getSignaturesForAddress
    sol_tasks,      \* tasks: one _request call per item that has a signature
    sol_out         \* formatted: the list the handler returns

solVars == <<sol_pc, sol_sigs, sol_first, sol_tasks, sol_out>>

\* Router: one BlockchainManager method serving one inbound request
VARIABLES
    rt_pc,          \* "idle", "routing", "awaiting" or "done"
    rt_chain,       \* chain_key of the request
    rt_op,          \* the manager method called
    rt_invoked,     \* the adapters invoked for this request, in order
    rt_outcome      \* what the last adapter call ended in

routerVars == <<rt_pc, rt_chain, rt_op, rt_invoked, rt_outcome>>

\* TON seqno: toncenter.get_ton_account
VARIABLES
    ton_pc,         \* "idle", "info", "seqno" or "done"
    ton_addr,       \* address of the request
    ton_info,       \* the upstream's answer to getAddressInformation
    ton_seq,        \* the upstream's answer to runGetMethod seqno
    ton_result      \* what get_ton_account ended in

tonVars == <<ton_pc, ton_addr, ton_info, ton_seq, ton_result>>

\* Broadcast: POST /broadcast/{chain_key}
VARIABLES
    bc_pc,          \* "idle", "adapter", "upstream", "returned" or "done"
    bc_chain,       \* chain_key of the request
    bc_tx,          \* the form of the tx_hex string in the body
    bc_up,          \* how the upstream exchange went
    bc_ret,         \* what broadcast_transaction returned or raised
    bc_http         \* the HTTP status the client gets

bcVars == <<bc_pc, bc_chain, bc_tx, bc_up, bc_ret, bc_http>>

\* Prices: GET /prices and the process-wide PRICE_CACHE
VARIABLES
    p_clock,        \* time.time(), in seconds
    p_cache,        \* PRICE_CACHE: symbol -> [src, ts]; src "none" when absent
    p_pc,           \* per request: "idle", "binance", "okx", "coingecko", "done"
    p_symbols,      \* per request: the symbols asked for
    p_now,          \* per request: `now`, read when the handler starts
    p_final,        \* per request: `final`, a set of [sym, src] entries
    p_missing,      \* per request: `missing`
    p_fetched       \* per request: `fetched`, a set of [sym, src] entries

priceVars == <<p_clock, p_cache, p_pc, p_symbols, p_now, p_final, p_missing,
               p_fetched>>

\* Nonce: GET /nonce/{chain_key}/{address} against one account of a node
VARIABLES
    nn_chain,       \* the EVM chain this behaviour is about
    nn_mined,       \* transactions of the address that are in a block
    nn_pool,        \* transactions of the address waiting in the mempool
    nn_pc,          \* "idle" or "answered"
    nn_answer,      \* what the upstream sent for the last query
    nn_nonce        \* what get_nonce returned for the last query

nnVars == <<nn_chain, nn_mined, nn_pool, nn_pc, nn_answer, nn_nonce>>

\* History: GET /transactions/{chain_key}/{address} through one adapter
VARIABLES
    h_pc,           \* "idle", "listing" (inside the parsing loop) or "returned"
    h_adapter,      \* the history adapter the request was routed to
    h_rec,          \* << >> or <<the upstream record parsed last>>
    h_emit,         \* << >> or <<the Transfer appended for that record>>
    h_n,            \* upstream records the loop has gone through
    h_len           \* length of the list built so far

histVars == <<h_pc, h_adapter, h_rec, h_emit, h_n, h_len>>

\* Amounts: one value going through to_standard_amount and back
VARIABLES
    a_pc,           \* "idle", "new", "rendered", "parsed" or "again"
    a_raw,          \* raw_value: a string of decimal digits, << >> for None
    a_src,          \* where decimals come from: the token and the coin entry
    a_force,        \* force_raw
    a_out,          \* the string to_standard_amount returned
    a_back,         \* that string read back as smallest units
    a_again         \* to_standard_amount of a_back

amtVars == <<a_pc, a_raw, a_src, a_force, a_out, a_back, a_again>>

\* Endpoints: one inbound request of chain_controller, from the route
\* function to the HTTP status
VARIABLES
    ep_pc,          \* "idle", "handling", "returned" or "answered"
    ep_op,          \* the endpoint
    ep_chain,       \* chain_key of the path
    ep_contract,    \* whether the request carries a contract
    ep_calls,       \* upstream `_request` calls made for the request
    ep_up,          \* how the upstream call ended, "none" without one
    ep_ret,         \* what the service method returned to the route function
    ep_http         \* status of the answer, 0 before it

epVars == <<ep_pc, ep_op, ep_chain, ep_contract, ep_calls, ep_up, ep_ret, ep_http>>

\* Upstream calls: the HTTP requests of the adapters, each through the
\* helper of its own module
VARIABLES
    u_path,         \* per call: the helper it goes through, "none" before
    u_pc,           \* per call: "idle", "entered", "ready", "http" or "done"
    u_holds,        \* per call: whether it holds a slot of a semaphore
    u_sent,         \* per call: HTTP requests sent
    u_last          \* per call: how its last HTTP request ended

upVars == <<u_path, u_pc, u_holds, u_sent, u_last>>

\* Sui history: the two queries of get_sui_transactions and their merge
VARIABLES
    s_pc,           \* "idle", "queries" or "done"
    s_limit,        \* the limit of the request, 0 before it
    s_from,         \* answer to the FromAddress query
    s_to,           \* answer to the ToAddress query
    s_out           \* final_txs, in the order returned

suiVars == <<s_pc, s_limit, s_from, s_to, s_out>>

\* BTC-family balance: one call of _get_btc_balance
VARIABLES
    b_pc,           \* "idle", "asked" or "done"
    b_res,          \* the answer of the balance endpoint
    b_out           \* the balance string returned, << >> before it

btcVars == <<b_pc, b_res, b_out>>

\* Gas estimate of the native RPC adapters (BSC, Avalanche C, ETC)
VARIABLES
    g_pc,           \* "idle", "asked" or "done"
    g_chain,        \* chain_key of the request
    g_contract,     \* whether the request carries a contract
    g_result,       \* eth_gasPrice: << >> for no result, <<hex string>>
    g_out           \* the estimate returned

gasVars == <<g_pc, g_chain, g_contract, g_result, g_out>>

\* Device: the main loop, the BLE API handler and TransactionSignState
VARIABLES
    d_kind,         \* ctx.state: "menu" (any other screen), "pairing", "sign"
    d_req,          \* the request the TransactionSignState was made for, 0
    d_form,         \* its key handlers: "review", "error", or "none"
    d_signing,      \* its is_signing
    d_next,         \* id of the next sign_tx packet
    d_responses,    \* per request: responses sent over BLE
    d_opened,       \* requests that opened a TransactionSignState
    d_confirmed,    \* requests whose state got the confirm key in review
    d_signed,       \* per request: calls of WalletService.sign_transaction
    d_workers,      \* signing threads that have not posted their event
    d_events        \* EVENT_SIGN_WORKER_DONE events in the queue

dvVars == <<d_kind, d_req, d_form, d_signing, d_next, d_responses, d_opened,
            d_confirmed, d_signed, d_workers, d_events>>

vars == <<runnerVars, solVars, routerVars, tonVars, bcVars, priceVars,
         nnVars,
         histVars,
         amtVars,
         epVars,
         upVars,
         suiVars,
         btcVars,
         gasVars,
         dvVars>>

\* A `_request` call that has not started: no HTTP request sent, no result.
NewRequest == [st |-> "queued", sent |-> 0, res |-> "pending"]

\* No Solana history request is being served.
SolIdle ==
    /\ sol_pc = "idle"
    /\ sol_sigs = << >>
    /\ sol_first = NewRequest
    /\ sol_tasks = << >>
    /\ sol_out = << >>

\* An upstream answer that has not arrived.
NoAnswer == [kind |-> "none"]

\* No seqno request is being served.
TonIdle ==
    /\ ton_pc = "idle"
    /\ ton_addr = "none"
    /\ ton_info = NoAnswer
    /\ ton_seq = NoAnswer
    /\ ton_result = [kind |-> "pending"]

\* No broadcast request is being served.
BcIdle ==
    /\ bc_pc = "idle"
    /\ bc_chain = "none"
    /\ bc_tx = "none"
    /\ bc_up = "none"
    /\ bc_ret = "pending"
    /\ bc_http = "none"

\* The price cache is empty and no /prices request is being served.
PriceIdle ==
    /\ p_clock = 0
    /\ p_cache = [s \in Symbols |-> [src |-> "none", ts |-> 0]]
    /\ p_pc = [r \in PriceReqs |-> "idle"]
    /\ p_symbols = [r \in PriceReqs |-> {}]
    /\ p_now = [r \in PriceReqs |-> 0]
    /\ p_final = [r \in PriceReqs |-> {}]
    /\ p_missing = [r \in PriceReqs |-> {}]
    /\ p_fetched = [r \in PriceReqs |-> {}]

\* No nonce has been asked for and the account has sent nothing.
NonceIdle ==
    /\ nn_chain = "none"
    /\ nn_mined = 0
    /\ nn_pool = 0
    /\ nn_pc = "idle"
    /\ nn_answer = << >>
    /\ nn_nonce = 0

\* No history request has been made.
HistIdle ==
    /\ h_pc = "idle"
    /\ h_adapter = "none"
    /\ h_rec = << >>
    /\ h_emit = << >>
    /\ h_n = 0
    /\ h_len = 0

\* No amount is being converted.
AmountIdle ==
    /\ a_pc = "idle"
    /\ a_raw = << >>
    /\ a_src = [token |-> "none", coin |-> << >>]
    /\ a_force = FALSE
    /\ a_out = << >>
    /\ a_back = << >>
    /\ a_again = << >>

\* No request is at an endpoint.
EndpointIdle ==
    /\ ep_pc = "idle"
    /\ ep_op = "none"
    /\ ep_chain = "none"
    /\ ep_contract = FALSE
    /\ ep_calls = 0
    /\ ep_up = "none"
    /\ ep_ret = "none"
    /\ ep_http = 0

\* No upstream call is open.
UpstreamIdle ==
    /\ u_path = [r \in UpCalls |-> "none"]
    /\ u_pc = [r \in UpCalls |-> "idle"]
    /\ u_holds = [r \in UpCalls |-> FALSE]
    /\ u_sent = [r \in UpCalls |-> 0]
    /\ u_last = [r \in UpCalls |-> "none"]


\* No Sui history request is open.
SuiIdle ==
    /\ s_pc = "idle"
    /\ s_limit = 0
    /\ s_from = [st |-> "none", data |-> << >>]
    /\ s_to = [st |-> "none", data |-> << >>]
    /\ s_out = << >>


\* No BTC-family balance is being read.
BtcIdle ==
    /\ b_pc = "idle"
    /\ b_res = [ok |-> FALSE, incoming |-> 0, outgoing |-> 0,
                incomingPending |-> 0, outgoingPending |-> 0]
    /\ b_out = << >>


\* No gas estimate is being made.
GasIdle ==
    /\ g_pc = "idle"
    /\ g_chain = "none"
    /\ g_contract = FALSE
    /\ g_result = << >>
    /\ g_out = [gasPrice |-> << >>, gasLimit |-> 0]


\* The device shows its menu and has received no sign_tx packet.
DeviceIdle ==
    /\ d_kind = "menu"
    /\ d_req = 0
    /\ d_form = "none"
    /\ d_signing = FALSE
    /\ d_next = 1
    /\ d_responses = [r \in SignReqs |-> 0]
    /\ d_opened = {}
    /\ d_confirmed = {}
    /\ d_signed = [r \in SignReqs |-> 0]
    /\ d_workers = {}
    /\ d_events = << >>


\* No request is in the router.
RouterIdle ==
    /\ rt_pc = "idle"
    /\ rt_chain = "none"
    /\ rt_op = "none"
    /\ rt_invoked = << >>
    /\ rt_outcome = "none"

Providers == {"tatum", "ankr"}

\* asyncio.Semaphore(2)
SemCapacity == 2

\* self._max_retry
MaxRetry == 3

\* self._rate_limit, in quarter seconds (1.0 s and 0.5 s)
RateLimit(p) == IF p = "tatum" THEN 4 ELSE 2

\* asyncio.sleep(1) after a 500/502/503/504
ServerErrorSleep == 4

\* asyncio.sleep(2) after a connect error / timeout
NetworkErrorSleep == 8

\* 1.5 ** attempt, in quarter seconds
Pow15(a) == CASE a = 0 -> 4 [] a = 1 -> 6 [] OTHER -> 9

\* Retry-After header values (seconds) the upstream may send
RetryAfterHeaders == {"absent", "0"}

\* int(resp.headers.get("Retry-After", 1)), in quarter seconds
RetryAfter(h) == IF h = "absent" THEN 4 ELSE 0

\* retry_after + (1.5 ** attempt)
SleepSeconds429(h, a) == RetryAfter(h) + Pow15(a)

\* What one HTTP attempt can end in: 2xx, 429, 500/502/503/504, another
\* 4xx, ConnectError/ReadTimeout/ConnectTimeout, any other exception.
Outcomes == {"ok", "429", "5xx", "4xx", "neterr", "exc"}

\* asyncio.Semaphore: a caller passes `async with self.sem` only when the
\* value is positive.
SemFreeLeaky(v) == v >= 0

SemFree(v) == v > 0

\* The except clauses of the retry loop catch what is raised inside the try
\* block unless it is a CancelledError, which derives from BaseException.
CatchesEverything(exc) == TRUE

ExceptCatches(exc) == exc # "CancelledError"

\* Calls that have been admitted and have not returned.
InFlight == {c \in Callers : pc[c] \in {"spacing", "http", "backoff_try", "backoff_exc"}}

\* HTTP requests the call has issued so far.
Sent(c) == IF pc[c] \in {"http", "backoff_try", "backoff_exc"} THEN attempt[c] + 1 ELSE 0

\* No call is using the runner.
RunnerIdle ==
    /\ provider = "tatum"
    /\ sem = SemCapacity
    /\ elapsed = RateLimit(provider)
    /\ pc = [c \in Callers |-> "idle"]
    /\ attempt = [c \in Callers |-> 0]
    /\ timer = [c \in Callers |-> 0]
    /\ sleep_seconds = [c \in Callers |-> 0]
    /\ holds = [c \in Callers |-> FALSE]
    /\ result = [c \in Callers |-> "pending"]
    /\ cancelledIn = [c \in Callers |-> "none"]

RunnerInit ==
    /\ DeviceIdle
    /\ GasIdle
    /\ BtcIdle
    /\ SuiIdle
    /\ UpstreamIdle
    /\ EndpointIdle
    /\ AmountIdle
    /\ HistIdle
    /\ NonceIdle
    /\ PriceIdle
    /\ BcIdle
    /\ SolIdle
    /\ RouterIdle
    /\ TonIdle
    /\ provider \in Providers
    /\ sem = SemCapacity
    /\ elapsed = RateLimit(provider)      \* _last_req_time = 0: long ago
    /\ pc = [c \in Callers |-> "idle"]
    /\ attempt = [c \in Callers |-> 0]
    /\ timer = [c \in Callers |-> 0]
    /\ sleep_seconds = [c \in Callers |-> 0]
    /\ holds = [c \in Callers |-> FALSE]
    /\ result = [c \in Callers |-> "pending"]
    /\ cancelledIn = [c \in Callers |-> "none"]

\* A coroutine calls _request and reaches `async with self.sem`.
Call(c) ==
    /\ pc[c] = "idle"
    /\ pc' = [pc EXCEPT ![c] = "waiting"]
    /\ UNCHANGED <<provider, sem, elapsed, attempt, timer, sleep_seconds,
                   holds, result, cancelledIn>>

\* "self._last_req_time = time.time()", then the loop starts with attempt 0.
Dispatch(c) ==
    /\ pc' = [pc EXCEPT ![c] = "http"]
    /\ elapsed' = 0
    /\ attempt' = [attempt EXCEPT ![c] = 0]

\* The semaphore is acquired; elapsed is compared with _rate_limit and the
\* call either sleeps for the difference or dispatches at once.
Admit(c) ==
    /\ pc[c] = "waiting"
    /\ SemFree(sem)
    /\ sem' = sem - 1
    /\ holds' = [holds EXCEPT ![c] = TRUE]
    /\ IF elapsed < RateLimit(provider)
       THEN /\ pc' = [pc EXCEPT ![c] = "spacing"]
            /\ timer' = [timer EXCEPT ![c] = RateLimit(provider) - elapsed]
            /\ UNCHANGED <<elapsed, attempt>>
       ELSE /\ Dispatch(c)
            /\ UNCHANGED timer
    /\ UNCHANGED <<provider, sleep_seconds, result, cancelledIn>>

\* The spacing sleep is over: record _last_req_time and start attempt 0.
SpacingWake(c) ==
    /\ pc[c] = "spacing"
    /\ timer[c] = 0
    /\ Dispatch(c)
    /\ UNCHANGED <<provider, sem, timer, sleep_seconds, holds, result, cancelledIn>>

\* A semaphore whose slot stays taken when its holder leaves.
SemReleaseLost(v, held) == v

\* __aexit__ of `async with self.sem`: a call that holds a slot gives it
\* back; a call still waiting in acquire() holds none.
SemRelease(v, held) == IF held THEN v + 1 ELSE v

\* Leaving `async with self.sem` with a value or an exception; the locals
\* of the call are gone.
Leave(c, how) ==
    /\ pc' = [pc EXCEPT ![c] = "done"]
    /\ result' = [result EXCEPT ![c] = how]
    /\ sem' = SemRelease(sem, holds[c])
    /\ holds' = [holds EXCEPT ![c] = FALSE]
    /\ attempt' = [attempt EXCEPT ![c] = 0]
    /\ timer' = [timer EXCEPT ![c] = 0]
    /\ sleep_seconds' = [sleep_seconds EXCEPT ![c] = 0]

\* await asyncio.sleep(d) inside the retry loop.
Backoff(c, where, d) ==
    /\ pc' = [pc EXCEPT ![c] = where]
    /\ sleep_seconds' = [sleep_seconds EXCEPT ![c] = d]
    /\ UNCHANGED <<sem, holds, result, attempt, timer>>

\* The body of the retry loop for one response or exception: where the
\* call goes after attempt `a` ended in outcome `o`.
AfterAttempt(o, a) ==
    CASE o = "ok" -> "json"
      [] o = "429" -> "backoff_try"
      [] o = "5xx" -> "backoff_try"
      [] o = "4xx" -> "None"
      [] o = "neterr" -> IF a < MaxRetry - 1 THEN "backoff_exc" ELSE "None"
      [] OTHER -> "None"

\* The argument of the asyncio.sleep that follows outcome `o`.
SleepFor(o, h, a) ==
    CASE o = "429" -> SleepSeconds429(h, a)
      [] o = "5xx" -> ServerErrorSleep
      [] OTHER -> NetworkErrorSleep

\* `for attempt in range(self._max_retry)`: is there an iteration after `a`?
LoopOvershoots(a) == a + 1 <= MaxRetry

LoopContinues(a) == a + 1 < MaxRetry

\* One HTTP attempt of call c ends.
Respond(c, o, h) ==
    /\ pc[c] = "http"
    /\ LET r == AfterAttempt(o, attempt[c])
       IN  IF r \in {"json", "None"}
           THEN Leave(c, r)
           ELSE Backoff(c, r, SleepFor(o, h, attempt[c]))
    /\ UNCHANGED <<provider, elapsed, cancelledIn>>

\* A backoff sleep is over: `continue` (or fall out of the except clause)
\* to the next iteration of `for attempt in range(self._max_retry)`, or
\* leave the loop and `return None`.  The model does not measure how long
\* the backoff sleep lasts: only its requested duration is kept.
BackoffWake(c) ==
    /\ pc[c] \in {"backoff_try", "backoff_exc"}
    /\ IF LoopContinues(attempt[c])
       THEN /\ pc' = [pc EXCEPT ![c] = "http"]
            /\ attempt' = [attempt EXCEPT ![c] = attempt[c] + 1]
            /\ sleep_seconds' = [sleep_seconds EXCEPT ![c] = 0]
            /\ UNCHANGED <<sem, holds, result, timer>>
       ELSE Leave(c, "None")
    /\ UNCHANGED <<provider, elapsed, cancelledIn>>

\* The caller's task is cancelled at one of its awaits.  A CancelledError
\* raised inside the try block meets the except clauses; anywhere else it
\* leaves the function through `async with`.
Cancel(c) ==
    /\ pc[c] \in {"waiting", "spacing", "http", "backoff_try", "backoff_exc"}
    /\ cancelledIn' = [cancelledIn EXCEPT ![c] = pc[c]]
    /\ IF pc[c] \in {"http", "backoff_try"} /\ ExceptCatches("CancelledError")
       THEN Leave(c, "None")
       ELSE Leave(c, "CancelledError")
    /\ UNCHANGED <<provider, elapsed>>

\* A quarter of a second passes.
Tick ==
    /\ elapsed' = Min(elapsed + 1, RateLimit(provider))
    /\ timer' = [c \in Callers |->
                   IF pc[c] = "spacing" THEN Max(timer[c] - 1, 0) ELSE timer[c]]
    /\ UNCHANGED <<provider, sem, pc, attempt, sleep_seconds, holds, result,
                   cancelledIn>>

\* What a step of the runner leaves alone.
RunnerOnly == UNCHANGED <<solVars, routerVars, tonVars, bcVars, priceVars, nnVars, histVars, amtVars, epVars, upVars, suiVars, btcVars, gasVars, dvVars>>

RunnerNext ==
    \/ \E c \in Callers : Call(c) /\ RunnerOnly
    \/ \E c \in Callers : Admit(c) /\ RunnerOnly
    \/ \E c \in Callers : SpacingWake(c) /\ RunnerOnly
    \/ \E c \in Callers, o \in Outcomes, h \in RetryAfterHeaders :
           Respond(c, o, h) /\ RunnerOnly
    \/ \E c \in Callers : BackoffWake(c) /\ RunnerOnly
    \/ \E c \in Callers : Cancel(c) /\ RunnerOnly
    \/ Tick /\ RunnerOnly

SpecRunner == RunnerInit /\ [][RunnerNext]_vars

\* ------------------------------------------------------------------------
\* Claims about the provider runner
\* ------------------------------------------------------------------------

\* C1: the number of calls that have been admitted and have not returned
\* (spacing sleep, HTTP attempt, backoff sleep) never exceeds the capacity
\* of the semaphore.
C1_InFlightWithinCapacity ==
    /\ Cardinality(InFlight) <= SemCapacity
    /\ InFlight = {c \in Callers : holds[c]}
    /\ sem = SemCapacity - Cardinality(InFlight)

\* Two calls are in flight, one of them in a backoff sleep, and a third
\* caller is kept waiting at the semaphore.
C1_Witness ==
    /\ Cardinality(InFlight) = SemCapacity
    /\ \E c \in Callers : pc[c] \in {"backoff_try", "backoff_exc"}
    /\ \E c \in Callers : pc[c] \in {"spacing", "http"}
    /\ \E c \in Callers : pc[c] = "waiting"

\* C2: any two successive dispatches to the same provider are at least
\* _rate_limit apart: whenever a call records _last_req_time and starts its
\* first attempt, at least _rate_limit has passed since the previous one.
C2_DispatchesSpaced ==
    [][\A c \in Callers :
          (pc[c] \in {"waiting", "spacing"} /\ pc'[c] = "http")
              => elapsed >= RateLimit(provider)]_vars

\* C4 (state part): a call cancelled while waiting for admission, in the
\* spacing sleep or in a backoff sleep has ended with the cancellation, not
\* with a value, and holds no slot of the semaphore.
CancelSettled(c) ==
    cancelledIn[c] \in {"waiting", "spacing", "backoff_try", "backoff_exc"}
        => /\ pc[c] = "done"
           /\ result[c] = "CancelledError"
           /\ ~holds[c]
           /\ sem = SemCapacity - Cardinality({d \in Callers : holds[d]})

\* C4: cancellation during admission wait, spacing sleep or backoff sleep
\* is propagated, releases the slot, and the call issues no HTTP attempt
\* afterwards (a call that has ended stays ended).
C4_CancellationPropagates ==
    [][\A c \in Callers :
          /\ CancelSettled(c)'
          /\ pc[c] = "done" => (pc'[c] = "done" /\ Sent(c)' = 0)]_vars

\* Three calls were cancelled, one in each of the three places, after one
\* of them had made an HTTP attempt; the semaphore is whole again.
C4_Witness ==
    /\ \E c \in Callers : cancelledIn[c] = "waiting" /\ result[c] = "CancelledError"
    /\ \E c \in Callers : cancelledIn[c] = "spacing" /\ result[c] = "CancelledError"
    /\ \E c \in Callers : cancelledIn[c] \in {"backoff_try", "backoff_exc"}
                          /\ result[c] = "CancelledError"
    /\ sem = SemCapacity

\* ------------------------------------------------------------------------
\* Chain router: BlockchainManager
\* ------------------------------------------------------------------------

\* ALLOW_COINS
AllowCoins ==
    {"bitcoin", "ethereum", "smartchain", "doge", "tron", "solana", "ripple",
     "bitcoincash", "ton", "avalanchec", "classic", "litecoin", "arbitrum",
     "polygon", "sui", "dash"}

\* chain_key values a request can carry: the supported chains, one more
\* chain Etherscan serves, and a key no adapter knows.
Chains == AllowCoins \cup {"arbitrumnova", "nochain"}

\* etherscan.is_support
EtherscanSupport == {"ethereum", "arbitrum", "arbitrumnova", "polygon"}

\* The methods of BlockchainManager behind the chain endpoints.
Ops == {"balance", "resource", "transactions", "fee", "seqno", "nonce",
        "gas", "utxo", "block", "broadcast"}

Adapters == {"tatum", "ankr", "toncenter", "dash", "etc", "sui", "bsc_rpc",
             "avax_rpc", "etherscan"}

\* The tail every EVM-style if/elif chain of the manager shares.
RouteEvm(chain) ==
    CASE chain = "classic" -> "etc"
      [] chain = "smartchain" -> "bsc_rpc"
      [] chain = "avalanchec" -> "avax_rpc"
      [] chain \in EtherscanSupport -> "etherscan"
      [] OTHER -> "tatum"

\* The adapter a manager method awaits for a chain_key.
Route(chain, op) ==
    CASE op = "balance" ->
            (CASE chain \in {"ton", "ripple"} -> "ankr"
               [] chain \in {"dash", "sui"} -> chain
               [] OTHER -> RouteEvm(chain))
      [] op = "transactions" ->
            (CASE chain = "ton" -> "toncenter"
               [] chain = "ripple" -> "ankr"
               [] chain \in {"dash", "sui"} -> chain
               [] chain = "smartchain" -> "tatum"
               [] OTHER -> RouteEvm(chain))
      [] op = "fee" ->
            (CASE chain = "ripple" -> "ankr"
               [] chain = "classic" -> "etc"
               [] chain = "sui" -> "sui"
               [] OTHER -> "tatum")
      [] op = "seqno" -> "toncenter"
      [] op \in {"nonce", "gas"} -> RouteEvm(chain)
      [] op = "utxo" ->
            (CASE chain \in {"dash", "sui"} -> chain
               [] OTHER -> "tatum")
      [] op \in {"block", "resource"} -> "tatum"
      [] OTHER ->
            (CASE chain = "ton" -> "toncenter"
               [] chain = "ripple" -> "ankr"
               [] chain \in {"dash", "sui"} -> chain
               [] OTHER -> RouteEvm(chain))

\* The providers a (chain, operation) pair is routed to.
RoutedProviders(chain, op) == {Route(chain, op)}

\* ------------------------------------------------------------------------
\* Solana history: TatumProvider._get_sol_transactions
\* One `_request` for getSignaturesForAddress, then one `_request` per
\* signature under asyncio.gather.  A `_request` call is kept as a record:
\* st (where it is), sent (HTTP requests it has issued), res (what it
\* returned).  Admission and spacing of these calls are those of the runner
\* above and do not change how many requests a call sends.
\* ------------------------------------------------------------------------

\* Most items the upstream lists in one getSignaturesForAddress answer.
MaxSigs == 2

\* Transaction signatures, by position in the upstream's list.
SigNames == <<"sigA", "sigB", "sigC", "sigD">>

\* res_sigs["result"]: item k carries its signature or none ("").
SigLists ==
    UNION {{l \in [1..n -> {SigNames[k] : k \in 1..MaxSigs} \cup {""}] :
               \A k \in 1..n : l[k] \in {SigNames[k], ""}} : n \in 0..MaxSigs}

\* Bodies of a 2xx answer to getSignaturesForAddress / getTransaction.
SigBodies == {"result", "error"}
TxBodies == {"result", "null"}

\* The call passes the semaphore and sends its first HTTP request.
ReqSend(q) == [q EXCEPT !.st = "http", !.sent = 1]

\* One HTTP attempt of the call ends in outcome o (body b when 2xx).
ReqRespond(q, o, b) ==
    LET r == AfterAttempt(o, q.sent - 1)
    IN  CASE r = "json" -> [q EXCEPT !.st = "done", !.res = b]
          [] r = "None" -> [q EXCEPT !.st = "done", !.res = "None"]
          [] OTHER -> [q EXCEPT !.st = r]

\* The backoff sleep of the call is over.
ReqWake(q) ==
    IF LoopContinues(q.sent - 1)
    THEN [q EXCEPT !.st = "http", !.sent = q.sent + 1]
    ELSE [q EXCEPT !.st = "done", !.res = "None"]

\* tasks: one getTransaction call per item of sig_list that has a signature.
RECURSIVE BuildTasks(_)
BuildTasks(sig_list) ==
    IF sig_list = << >> THEN << >>
    ELSE IF Head(sig_list) = ""
         THEN BuildTasks(Tail(sig_list))
         ELSE <<NewRequest @@ [sig |-> Head(sig_list)]>>
              \o BuildTasks(Tail(sig_list))

\* Step 3: one record per non-empty detail, in task order; the txid is read
\* from sig_list at the index of the task.
RECURSIVE Formatted(_, _, _)
Formatted(sig_list, tasks, i) ==
    IF i > Len(tasks) THEN << >>
    ELSE IF tasks[i].res # "result"
         THEN Formatted(sig_list, tasks, i + 1)
         ELSE <<[txid |-> sig_list[i], details |-> tasks[i].sig]>>
              \o Formatted(sig_list, tasks, i + 1)

\* HTTP requests sent by a sequence of calls.
RECURSIVE SumSent(_)
SumSent(tasks) ==
    IF tasks = << >> THEN 0 ELSE Head(tasks).sent + SumSent(Tail(tasks))

\* HTTP requests this history request has made to the upstream so far.
SolCalls == sol_first.sent + SumSent(sol_tasks)

SolInit ==
    /\ DeviceIdle
    /\ GasIdle
    /\ BtcIdle
    /\ SuiIdle
    /\ UpstreamIdle
    /\ EndpointIdle
    /\ AmountIdle
    /\ HistIdle
    /\ NonceIdle
    /\ PriceIdle
    /\ BcIdle
    /\ RunnerIdle
    /\ RouterIdle
    /\ TonIdle
    /\ SolIdle

\* GET /transactions/solana/{address} reaches _get_sol_transactions.
SolCall ==
    /\ sol_pc = "idle"
    /\ sol_pc' = "signatures"
    /\ UNCHANGED <<sol_sigs, sol_first, sol_tasks, sol_out>>

\* The getSignaturesForAddress call returned q: either return [] or build
\* the tasks from the listed items.
SolAfterSignatures(q, sig_list) ==
    /\ sol_first' = q
    /\ IF q.st # "done"
       THEN UNCHANGED <<sol_pc, sol_sigs, sol_tasks, sol_out>>
       ELSE IF q.res # "result"
            THEN /\ sol_pc' = "done"
                 /\ UNCHANGED <<sol_sigs, sol_tasks, sol_out>>
            ELSE /\ sol_pc' = "details"
                 /\ sol_sigs' = sig_list
                 /\ sol_tasks' = BuildTasks(sig_list)
                 /\ UNCHANGED sol_out

SolSigSend ==
    /\ sol_pc = "signatures"
    /\ sol_first.st = "queued"
    /\ sol_first' = ReqSend(sol_first)
    /\ UNCHANGED <<sol_pc, sol_sigs, sol_tasks, sol_out>>

SolSigRespond(o, b, sig_list) ==
    /\ sol_pc = "signatures"
    /\ sol_first.st = "http"
    /\ SolAfterSignatures(ReqRespond(sol_first, o, b), sig_list)

SolSigWake ==
    /\ sol_pc = "signatures"
    /\ sol_first.st \in {"backoff_try", "backoff_exc"}
    /\ SolAfterSignatures(ReqWake(sol_first), << >>)

SolTaskSend(i) ==
    /\ sol_pc = "details"
    /\ i \in 1..Len(sol_tasks)
    /\ sol_tasks[i].st = "queued"
    /\ sol_tasks' = [sol_tasks EXCEPT ![i] = ReqSend(sol_tasks[i])]
    /\ UNCHANGED <<sol_pc, sol_sigs, sol_first, sol_out>>

SolTaskRespond(i, o, b) ==
    /\ sol_pc = "details"
    /\ i \in 1..Len(sol_tasks)
    /\ sol_tasks[i].st = "http"
    /\ sol_tasks' = [sol_tasks EXCEPT ![i] = ReqRespond(sol_tasks[i], o, b)]
    /\ UNCHANGED <<sol_pc, sol_sigs, sol_first, sol_out>>

SolTaskWake(i) ==
    /\ sol_pc = "details"
    /\ i \in 1..Len(sol_tasks)
    /\ sol_tasks[i].st \in {"backoff_try", "backoff_exc"}
    /\ sol_tasks' = [sol_tasks EXCEPT ![i] = ReqWake(sol_tasks[i])]
    /\ UNCHANGED <<sol_pc, sol_sigs, sol_first, sol_out>>

\* asyncio.gather has every result: format and return.
SolGather ==
    /\ sol_pc = "details"
    /\ \A i \in 1..Len(sol_tasks) : sol_tasks[i].st = "done"
    /\ sol_out' = Formatted(sol_sigs, sol_tasks, 1)
    /\ sol_pc' = "done"
    /\ UNCHANGED <<sol_sigs, sol_first, sol_tasks>>

\* What a step of the Solana history leaves alone.
SolOnly == UNCHANGED <<runnerVars, routerVars, tonVars, bcVars, priceVars, nnVars, histVars, amtVars, epVars, upVars, suiVars, btcVars, gasVars, dvVars>>

SolNext ==
    \/ SolCall /\ SolOnly
    \/ SolSigSend /\ SolOnly
    \/ \E o \in Outcomes, b \in SigBodies, l \in SigLists :
           SolSigRespond(o, b, l) /\ SolOnly
    \/ SolSigWake /\ SolOnly
    \/ \E i \in 1..MaxSigs : SolTaskSend(i) /\ SolOnly
    \/ \E i \in 1..MaxSigs, o \in Outcomes, b \in TxBodies :
           SolTaskRespond(i, o, b) /\ SolOnly
    \/ \E i \in 1..MaxSigs : SolTaskWake(i) /\ SolOnly
    \/ SolGather /\ SolOnly

SpecSol == SolInit /\ [][SolNext]_vars

\* C3 as stated: the HTTP requests one inbound request causes are at most
\* (number of providers routed for the chain and operation) * MaxRetry,
\* the Solana fan-out included.
C3_CallsWithinProviderBudget ==
    SolCalls <= Cardinality(RoutedProviders("solana", "transactions")) * MaxRetry

\* C3: what holds is a budget per `_request` call: Solana history makes one
\* call for the signatures and one per listed signature, each sending at
\* most MaxRetry HTTP requests.
C3_CallsWithinFanOutBudget ==
    /\ sol_first.sent <= MaxRetry
    /\ \A i \in 1..Len(sol_tasks) : sol_tasks[i].sent <= MaxRetry
    /\ Len(sol_tasks) = Len(SelectSeq(sol_sigs, LAMBDA e : e # ""))
    /\ SolCalls <= (1 + Len(sol_tasks)) * MaxRetry

\* The request has returned after every call used all its attempts.
C3_Witness ==
    /\ sol_pc = "done"
    /\ Len(sol_tasks) = MaxSigs
    /\ SolCalls = (1 + MaxSigs) * MaxRetry

\* Position in sig_list of the item carrying signature sig.
SigPosition(sig_list, sig) ==
    CHOOSE k \in 1..Len(sig_list) : sig_list[k] = sig

\* C22: the records of a Solana history appear in the order of the input
\* signature list, and the txid of each record is the signature whose
\* getTransaction answer the record was made from.
C22_OrderedAndOwnTxid ==
    sol_pc = "done" =>
        /\ \A k \in 1..Len(sol_out) : sol_out[k].txid = sol_out[k].details
        /\ \A j, k \in 1..Len(sol_out) :
               j < k => SigPosition(sol_sigs, sol_out[j].details)
                            < SigPosition(sol_sigs, sol_out[k].details)

\* ------------------------------------------------------------------------
\* One inbound request through the router
\* ------------------------------------------------------------------------

\* What an adapter call can end in: a value, an empty list or dict, a
\* sentinel (None, "", 0, "0") or an exception.
AdapterOutcomes == {"value", "empty", "sentinel", "raises"}

\* Every manager method is `return await <adapter>(...)`: whatever the
\* adapter ends in, the method ends with it.
AfterAdapterCascade(o) == IF o = "value" THEN "return" ELSE "again"

AfterAdapter(o) == "return"

RouterInit ==
    /\ DeviceIdle
    /\ GasIdle
    /\ BtcIdle
    /\ SuiIdle
    /\ UpstreamIdle
    /\ EndpointIdle
    /\ AmountIdle
    /\ HistIdle
    /\ NonceIdle
    /\ PriceIdle
    /\ BcIdle
    /\ RunnerIdle
    /\ SolIdle
    /\ TonIdle
    /\ RouterIdle

\* A controller calls the manager method `op` with chain_key `chain`.
RtRequest(chain, op) ==
    /\ rt_pc = "idle"
    /\ rt_pc' = "routing"
    /\ rt_chain' = chain
    /\ rt_op' = op
    /\ UNCHANGED <<rt_invoked, rt_outcome>>

\* The if/elif chain picks the adapter and awaits it.
RtInvoke ==
    /\ rt_pc = "routing"
    /\ rt_invoked' = Append(rt_invoked, Route(rt_chain, rt_op))
    /\ rt_pc' = "awaiting"
    /\ UNCHANGED <<rt_chain, rt_op, rt_outcome>>

\* The adapter call ends.
RtAdapterEnds(o) ==
    /\ rt_pc = "awaiting"
    /\ rt_outcome' = o
    /\ rt_pc' = IF AfterAdapter(o) = "return" THEN "done" ELSE "routing"
    /\ UNCHANGED <<rt_chain, rt_op, rt_invoked>>

\* What a step of the router leaves alone.
RouterOnly == UNCHANGED <<runnerVars, solVars, tonVars, bcVars, priceVars, nnVars, histVars, amtVars, epVars, upVars, suiVars, btcVars, gasVars, dvVars>>

RouterNext ==
    \/ \E chain \in Chains, op \in Ops : RtRequest(chain, op) /\ RouterOnly
    \/ RtInvoke /\ RouterOnly
    \/ \E o \in AdapterOutcomes : RtAdapterEnds(o) /\ RouterOnly

SpecRouter == RouterInit /\ [][RouterNext]_vars

\* C5: for every chain and operation the router invokes exactly one
\* adapter per request, the one its table names; when that adapter fails or
\* returns an empty or sentinel result the request ends with that result:
\* no other adapter is invoked and the same one is not invoked again.
C5_ExactlyOneAdapter ==
    /\ Len(rt_invoked) <= 1
    /\ rt_pc \in {"awaiting", "done"} =>
           /\ rt_invoked = <<Route(rt_chain, rt_op)>>
           /\ rt_invoked[1] \in Adapters
    /\ rt_outcome # "none" => rt_pc = "done"

\* A request whose adapter (not the default one) raised is over after that
\* single invocation.
C5_Witness ==
    /\ rt_pc = "done"
    /\ rt_outcome = "raises"
    /\ rt_op = "broadcast"
    /\ rt_invoked = <<"etherscan">>

\* ------------------------------------------------------------------------
\* TON seqno: toncenter._request and toncenter.get_ton_account
\* ------------------------------------------------------------------------

TonAddresses == {"EQa", "EQb", "UQc"}

\* How one Toncenter HTTP exchange can go: status >= 400, a transport
\* exception, 200 with {"ok": false}, 200 with {"ok": true, "result": ...}.
TonFailureKinds == {"http_error", "exception", "not_ok"}

\* Characters of the strings a "num" stack entry may carry.
DigitVal(ch) ==
    CASE ch = "0" -> 0
      [] ch = "1" -> 1
      [] ch = "7" -> 7
      [] ch = "f" -> 15
      [] OTHER -> 16

\* int() raised ValueError.
ParseError == 0 - 1

\* int(chars, base) for a string of digits without sign or prefix.
RECURSIVE ParseDigits(_, _, _)
ParseDigits(chars, base, acc) ==
    IF chars = << >> THEN acc
    ELSE IF DigitVal(Head(chars)) >= base THEN ParseError
         ELSE ParseDigits(Tail(chars), base, acc * base + DigitVal(Head(chars)))

\* val_str.startswith('0x')
StartsWith0x(chars) == Len(chars) >= 2 /\ chars[1] = "0" /\ chars[2] = "x"

\* int(val_str, 16) if val_str.startswith('0x') else int(val_str)
ParseSeqno(chars) ==
    IF StartsWith0x(chars)
    THEN IF Len(chars) = 2 THEN ParseError
         ELSE ParseDigits(SubSeq(chars, 3, Len(chars)), 16, 0)
    ELSE IF chars = << >> THEN ParseError
         ELSE ParseDigits(chars, 10, 0)

\* Values of stack[0][1] the node may send.
ValStrings ==
    {<<"0">>, <<"7">>, <<"1", "7">>, <<"0", "x", "0">>, <<"0", "x", "1", "f">>,
     <<"0", "x">>, << >>, <<"f">>, <<"z">>}

\* Answers to getAddressInformation: a failure, an empty result, or a
\* result with a balance and possibly a state.
InfoAnswers ==
    {[kind |-> k] : k \in TonFailureKinds \cup {"empty"}}
    \cup {[kind |-> "ok", state |-> st, balance |-> b] :
             st \in {"active", "uninitialized", "frozen", "absent"},
             b \in {"0", "5000"}}

\* Answers to runGetMethod: a failure, a result without "stack", or a
\* result whose stack is empty or starts with one typed entry.
SeqAnswers ==
    {[kind |-> k] : k \in TonFailureKinds \cup {"no_stack"}}
    \cup {[kind |-> "ok", stack |-> << >>]}
    \cup {[kind |-> "ok", stack |-> <<[type |-> t, val |-> v]>>] :
             t \in {"num", "cell"}, v \in ValStrings}

\* toncenter._request returns None unless the answer is 200 with ok true.
TonRequestIsNone(ans) == ans.kind \in TonFailureKinds

\* `not info_data`
InfoMissing(ans) == TonRequestIsNone(ans) \/ ans.kind = "empty"

\* info_data.get("state", "uninitialized")
InfoState(ans) == IF ans.state = "absent" THEN "uninitialized" ELSE ans.state

\* default_res with the balance filled in.
TonRecord(seqno, deployed, balance) ==
    [kind |-> "record", seqno |-> seqno, is_deployed |-> deployed,
     balance |-> balance]

\* The seqno logic for an active account with every failure answered by 0.
SeqnoLogicDefaulting(ans, balance) ==
    IF /\ ans.kind = "ok"
       /\ ans.stack # << >>
       /\ ans.stack[1].type = "num"
       /\ ParseSeqno(ans.stack[1].val) # ParseError
    THEN TonRecord(ParseSeqno(ans.stack[1].val), TRUE, balance)
    ELSE TonRecord(0, TRUE, balance)

\* The seqno logic for an active account: the record, or the ValueError
\* raised on a missing answer, a missing or empty stack, a first entry that
\* is not "num", or a value int() rejects.
SeqnoLogic(ans, balance) ==
    IF TonRequestIsNone(ans) \/ ans.kind = "no_stack"
    THEN [kind |-> "ValueError"]
    ELSE IF ans.stack # << >> /\ ans.stack[1].type = "num"
         THEN IF ParseSeqno(ans.stack[1].val) = ParseError
              THEN [kind |-> "ValueError"]
              ELSE TonRecord(ParseSeqno(ans.stack[1].val), TRUE, balance)
         ELSE [kind |-> "ValueError"]

TonInit ==
    /\ DeviceIdle
    /\ GasIdle
    /\ BtcIdle
    /\ SuiIdle
    /\ UpstreamIdle
    /\ EndpointIdle
    /\ AmountIdle
    /\ HistIdle
    /\ NonceIdle
    /\ PriceIdle
    /\ BcIdle
    /\ RunnerIdle
    /\ SolIdle
    /\ RouterIdle
    /\ TonIdle

\* GET /seqno/{chain_key}/{address}: get_ton_account sends
\* getAddressInformation.
TonCall(a) ==
    /\ ton_pc = "idle"
    /\ ton_pc' = "info"
    /\ ton_addr' = a
    /\ UNCHANGED <<ton_info, ton_seq, ton_result>>

\* The answer to getAddressInformation arrives.
TonInfoAnswer(ans) ==
    /\ ton_pc = "info"
    /\ ton_info' = ans
    /\ IF InfoMissing(ans)
       THEN /\ ton_result' = TonRecord(0, FALSE, "0")
            /\ ton_pc' = "done"
       ELSE IF InfoState(ans) = "active"
            THEN /\ ton_pc' = "seqno"
                 /\ UNCHANGED ton_result
            ELSE /\ ton_result' = TonRecord(0, FALSE, ans.balance)
                 /\ ton_pc' = "done"
    /\ UNCHANGED <<ton_addr, ton_seq>>

\* The answer to runGetMethod seqno arrives.
TonSeqAnswer(ans) ==
    /\ ton_pc = "seqno"
    /\ ton_seq' = ans
    /\ ton_result' = SeqnoLogic(ans, ton_info.balance)
    /\ ton_pc' = "done"
    /\ UNCHANGED <<ton_addr, ton_info>>

\* What a step of the seqno request leaves alone.
TonOnly == UNCHANGED <<runnerVars, solVars, routerVars, bcVars, priceVars, nnVars, histVars, amtVars, epVars, upVars, suiVars, btcVars, gasVars, dvVars>>

TonNext ==
    \/ \E a \in TonAddresses : TonCall(a) /\ TonOnly
    \/ \E ans \in InfoAnswers : TonInfoAnswer(ans) /\ TonOnly
    \/ \E ans \in SeqAnswers : TonSeqAnswer(ans) /\ TonOnly

SpecTon == TonInit /\ [][TonNext]_vars

\* The node reported the account active.
TonActive == ton_info.kind = "ok" /\ ton_info.state = "active"

\* The seqno answer carries a first stack entry of type "num" whose value
\* reads as a decimal or 0x-prefixed hexadecimal number.
TonSeqNumeric ==
    /\ ton_seq.kind = "ok"
    /\ ton_seq.stack # << >>
    /\ ton_seq.stack[1].type = "num"
    /\ ParseSeqno(ton_seq.stack[1].val) >= 0

\* C6: when the node reports the account active and the seqno call fails
\* or returns no numeric stack entry, the operation ends in an error; a
\* record for an active account carries the seqno the node sent, never a
\* defaulted one.
C6_ActiveSeqnoNeverDefaulted ==
    (ton_pc = "done" /\ TonActive) =>
        IF TonSeqNumeric
        THEN /\ ton_result.kind = "record"
             /\ ton_result.is_deployed
             /\ ton_result.seqno = ParseSeqno(ton_seq.stack[1].val)
        ELSE ton_result.kind = "ValueError"

\* An active account whose seqno call failed at the HTTP level ended in the
\* error.
C6_Witness ==
    /\ ton_pc = "done"
    /\ TonActive
    /\ ton_seq.kind = "http_error"
    /\ ton_result.kind = "ValueError"

\* ------------------------------------------------------------------------
\* Broadcast: api_send_tx -> BlockchainService.send_tx ->
\* BlockchainManager.broadcast_transaction -> the chain's adapter
\* ------------------------------------------------------------------------

\* Forms of the tx_hex string: bare hex, 0x-prefixed hex, or the JSON
\* document Sui expects.
TxForms == {"hex", "0xhex", "json"}

\* How the exchange with the upstream can go: the transaction is accepted,
\* a 2xx answer carries an error body, a 4xx/5xx answer, retries exhausted,
\* or a transport exception.
BcUpstream == {"accepted", "rpc_error", "http_error", "exhausted", "exception"}

\* The adapter's request wrapper returns None (no body) for these.
WrapperNone(up) == up \in {"http_error", "exhausted", "exception"}

\* Does the adapter reach its upstream at all?  Tatum returns None for a
\* chain outside ALLOW_COINS, and Sui returns "" when the body is not JSON.
ContactsUpstream(chain, form) ==
    CASE Route(chain, "broadcast") = "tatum" -> chain \in AllowCoins
      [] Route(chain, "broadcast") = "sui" -> form = "json"
      [] OTHER -> TRUE

\* What the adapter returns without contacting the upstream.
ReturnsUnsent(chain) ==
    IF Route(chain, "broadcast") = "tatum" THEN "None" ELSE "empty"

\* What the adapter returns (or raises) after the upstream exchange:
\* "txid" is a non-empty string, "empty" is "", "dict" is {"txid": hash}.
BroadcastReturns(chain, up) ==
    CASE Route(chain, "broadcast") = "toncenter" ->
            IF up = "accepted" THEN "dict" ELSE "None"
      [] Route(chain, "broadcast") = "tatum" /\ chain = "solana" ->
            IF WrapperNone(up) THEN "AttributeError"
            ELSE IF up = "accepted" THEN "txid" ELSE "empty"
      [] OTHER ->
            IF up = "accepted" THEN "txid" ELSE "empty"

\* `if tx_id`
Truthy(ret) == ret \in {"txid", "dict"}

\* send_tx and api_send_tx: the status the client gets.
HttpStatus(ret) ==
    CASE ret = "AttributeError" -> "500"
      [] Truthy(ret) -> "200"
      [] OTHER -> "400"

BcInit ==
    /\ DeviceIdle
    /\ GasIdle
    /\ BtcIdle
    /\ SuiIdle
    /\ UpstreamIdle
    /\ EndpointIdle
    /\ AmountIdle
    /\ HistIdle
    /\ NonceIdle
    /\ PriceIdle
    /\ RunnerIdle
    /\ SolIdle
    /\ RouterIdle
    /\ TonIdle
    /\ BcIdle

\* POST /broadcast/{chain_key} with body {"tx_hex": ...}.
BcRequest(chain, form) ==
    /\ bc_pc = "idle"
    /\ bc_pc' = "adapter"
    /\ bc_chain' = chain
    /\ bc_tx' = form
    /\ UNCHANGED <<bc_up, bc_ret, bc_http>>

\* The routed adapter starts: it sends to its upstream or returns at once.
BcAdapter ==
    /\ bc_pc = "adapter"
    /\ IF ContactsUpstream(bc_chain, bc_tx)
       THEN /\ bc_pc' = "upstream"
            /\ UNCHANGED bc_ret
       ELSE /\ bc_pc' = "returned"
            /\ bc_ret' = ReturnsUnsent(bc_chain)
    /\ UNCHANGED <<bc_chain, bc_tx, bc_up, bc_http>>

\* The exchange with the upstream is over and the adapter returns.
BcUpstreamEnds(up) ==
    /\ bc_pc = "upstream"
    /\ bc_up' = up
    /\ bc_ret' = BroadcastReturns(bc_chain, up)
    /\ bc_pc' = "returned"
    /\ UNCHANGED <<bc_chain, bc_tx, bc_http>>

\* send_tx wraps the value and the controller answers.
BcRespond ==
    /\ bc_pc = "returned"
    /\ bc_http' = HttpStatus(bc_ret)
    /\ bc_pc' = "done"
    /\ UNCHANGED <<bc_chain, bc_tx, bc_up, bc_ret>>

\* What a step of the broadcast leaves alone.
BcOnly == UNCHANGED <<runnerVars, solVars, routerVars, tonVars, priceVars, nnVars, histVars, amtVars, epVars, upVars, suiVars, btcVars, gasVars, dvVars>>

BcNext ==
    \/ \E chain \in Chains, form \in TxForms : BcRequest(chain, form) /\ BcOnly
    \/ BcAdapter /\ BcOnly
    \/ \E up \in BcUpstream : BcUpstreamEnds(up) /\ BcOnly
    \/ BcRespond /\ BcOnly

SpecBroadcast == BcInit /\ [][BcNext]_vars

\* C7: for every chain, broadcast returns a non-empty transaction-id
\* string when the upstream accepted the transaction and the empty string
\* on every upstream failure, so that the client gets 200 with a string
\* txid or 400, and never an unhandled exception.
C7_BroadcastStringOrEmpty ==
    (bc_pc = "done" /\ bc_up # "none") =>
        /\ bc_up = "accepted" => (bc_ret = "txid" /\ bc_http = "200")
        /\ bc_up # "accepted" => (bc_ret = "empty" /\ bc_http = "400")
        /\ bc_http # "500"

\* ------------------------------------------------------------------------
\* Prices: app_controller.get_prices and price_service
\* A price is kept as the name of the tier that supplied it.
\* ------------------------------------------------------------------------

\* CACHE_TTL, in seconds
CacheTTL == 15

\* The readings of time.time() the model follows, in seconds: an entry
\* written at one of them is 5, 10 or 15 seconds old at a later one.
ClockReadings == {0, 5, 15}

\* Most symbols in one request.
MaxCoins == 2

\* BLACKLIST of fetch_binance_batch
Blacklist == {<<"TRX">>, <<"XRP">>}

\* Symbols of the registry and their ids (cg_map).
CgId(s) ==
    CASE s = <<"BTC">> -> "bitcoin"
      [] s = <<"TRX">> -> "tron"
      [] OTHER -> "none"

CgIds == {"bitcoin", "tron"}

\* What the upstream tickers may list.  Binance: pairs <<base, quote>> for
\* f"{base}{quote}".  OKX SPOT: instIds BASE-QUOTE, kept as their parts.
BinancePairs == {<<s, "USDT">> : s \in {<<"BTC">>, <<"TRX">>}}
OkxInstIds == {<<b, "USDT">> : b \in {"BTC", "TRX"}}

\* A tier's answer: "error" (status other than 200, or an exception
\* before any item is read), or the set of what it lists.
BinanceAnswers == {[ok |-> FALSE, items |-> {}]}
                  \cup {[ok |-> TRUE, items |-> l] : l \in SUBSET BinancePairs}
OkxAnswers == {[ok |-> FALSE, items |-> {}]}
              \cup {[ok |-> TRUE, items |-> l] : l \in SUBSET OkxInstIds}
CgAnswers == {[ok |-> FALSE, items |-> {}]}
             \cup {[ok |-> TRUE, items |-> l] : l \in SUBSET CgIds}

\* The keys of a dict kept as a set of [sym, src] entries.
Keys(d) == {e.sym : e \in d}

\* dict.update
Update(d, e) == {x \in d : x.sym \notin Keys(e)} \cup e

\* now - PRICE_CACHE[s]['timestamp'] < CACHE_TTL
FreshInclusive(now, ts) == now - ts <= CacheTTL

Fresh(now, ts) == now - ts < CacheTTL

\* s in PRICE_CACHE and the entry is fresh
IsHit(s, now) == p_cache[s].src # "none" /\ Fresh(now, p_cache[s].ts)

\* The symbols fetch_binance_batch puts in target_map.
BinanceTargetsAll(missing) == missing

BinanceTargets(missing) == missing \ Blacklist

\* fetch_binance_batch: results
BinanceResults(missing, ans) ==
    IF ~ans.ok THEN {}
    ELSE {[sym |-> s, src |-> "binance"] :
             s \in {t \in BinanceTargets(missing) :
                       <<t, "USD">> \in ans.items \/ <<t, "USDT">> \in ans.items}}

\* fetch_okx_batch: target_instIds, and results keyed by
\* instId.split("-")[0]
OkxTargets(missing) ==
    {s \o <<"USDT">> : s \in missing} \cup {s \o <<"USD">> : s \in missing}

OkxResults(missing, ans) ==
    IF ~ans.ok THEN {}
    ELSE {[sym |-> <<Head(i)>>, src |-> "okx"] :
             i \in ans.items \cap OkxTargets(missing)}

\* fetch_coingecko_batch: ids_to_query, and results keyed by
\* id_to_original_sym
CgQuery(missing) == {CgId(s) : s \in {t \in missing : CgId(t) # "none"}}

CgResults(missing, ans) ==
    IF ~ans.ok THEN {}
    ELSE {[sym |-> s, src |-> "coingecko"] :
             s \in {t \in missing : CgId(t) \in ans.items \cap CgQuery(missing)}}

\* missing = [m for m in missing if m not in fetched]
RemainingUnfiltered(missing, fetched) == missing

Remaining(missing, fetched) == missing \ Keys(fetched)

\* Sets of symbols a request may carry.
CoinSets == {c \in SUBSET Symbols : Cardinality(c) <= MaxCoins}

PriceInit ==
    /\ DeviceIdle
    /\ GasIdle
    /\ BtcIdle
    /\ SuiIdle
    /\ UpstreamIdle
    /\ EndpointIdle
    /\ AmountIdle
    /\ HistIdle
    /\ NonceIdle
    /\ RunnerIdle
    /\ SolIdle
    /\ RouterIdle
    /\ TonIdle
    /\ BcIdle
    /\ PriceIdle

\* Step 5 and the return: write every fetched symbol to the cache with
\* the request's `now`, add it to `final`, and answer.
Finish(r, fetched, missing) ==
    /\ p_cache' = [s \in Symbols |->
                     IF s \in Keys(fetched)
                     THEN [src |-> (CHOOSE e \in fetched : e.sym = s).src,
                           ts |-> p_now[r]]
                     ELSE p_cache[s]]
    /\ p_final' = [p_final EXCEPT ![r] = Update(p_final[r], fetched)]
    /\ p_fetched' = [p_fetched EXCEPT ![r] = fetched]
    /\ p_missing' = [p_missing EXCEPT ![r] = missing]
    /\ p_pc' = [p_pc EXCEPT ![r] = "done"]

\* The handler goes on to await the tier `tier`.
Await(r, tier, fetched, missing) ==
    /\ p_fetched' = [p_fetched EXCEPT ![r] = fetched]
    /\ p_missing' = [p_missing EXCEPT ![r] = missing]
    /\ p_pc' = [p_pc EXCEPT ![r] = tier]
    /\ UNCHANGED <<p_cache, p_final>>

\* GET /prices?coins=...: read the clock, split the symbols into cache
\* hits and misses, and either answer or call Binance.
PStart(r, coins) ==
    /\ p_pc[r] = "idle"
    /\ p_symbols' = [p_symbols EXCEPT ![r] = coins]
    /\ p_now' = [p_now EXCEPT ![r] = p_clock]
    /\ LET hits == {s \in coins : IsHit(s, p_clock)}
       IN  /\ p_final' = [p_final EXCEPT ![r] =
                  {[sym |-> s, src |-> p_cache[s].src] : s \in hits}]
           /\ p_missing' = [p_missing EXCEPT ![r] = coins \ hits]
           /\ p_pc' = [p_pc EXCEPT ![r] =
                  IF coins \ hits = {} THEN "done" ELSE "binance"]
    /\ p_fetched' = [p_fetched EXCEPT ![r] = {}]
    /\ UNCHANGED <<p_clock, p_cache>>

\* After OKX: `if missing:` calls fetch_coingecko_batch, which sends an HTTP
\* request only when the registry knows one of the symbols.
AfterOkx(r, fetched, missing) ==
    IF missing # {} /\ CgQuery(missing) # {}
    THEN Await(r, "coingecko", fetched, missing)
    ELSE Finish(r, fetched, missing)

\* Binance answered.
PBinance(r, ans) ==
    /\ p_pc[r] = "binance"
    /\ LET fetched == BinanceResults(p_missing[r], ans)
           missing == Remaining(p_missing[r], fetched)
       IN  IF missing # {}
           THEN Await(r, "okx", fetched, missing)
           ELSE Finish(r, fetched, missing)
    /\ UNCHANGED <<p_clock, p_symbols, p_now>>

\* OKX answered.
POkx(r, ans) ==
    /\ p_pc[r] = "okx"
    /\ LET fetched == Update(p_fetched[r], OkxResults(p_missing[r], ans))
           missing == Remaining(p_missing[r], fetched)
       IN  AfterOkx(r, fetched, missing)
    /\ UNCHANGED <<p_clock, p_symbols, p_now>>

\* CoinGecko answered.
PCoingecko(r, ans) ==
    /\ p_pc[r] = "coingecko"
    /\ LET fetched == Update(p_fetched[r], CgResults(p_missing[r], ans))
           missing == Remaining(p_missing[r], fetched)
       IN  Finish(r, fetched, missing)
    /\ UNCHANGED <<p_clock, p_symbols, p_now>>

\* The response has been sent; the locals of the handler are gone.
PReturn(r) ==
    /\ p_pc[r] = "done"
    /\ p_pc' = [p_pc EXCEPT ![r] = "idle"]
    /\ p_symbols' = [p_symbols EXCEPT ![r] = {}]
    /\ p_now' = [p_now EXCEPT ![r] = 0]
    /\ p_final' = [p_final EXCEPT ![r] = {}]
    /\ p_missing' = [p_missing EXCEPT ![r] = {}]
    /\ p_fetched' = [p_fetched EXCEPT ![r] = {}]
    /\ UNCHANGED <<p_clock, p_cache>>

\* Time passes.
PTick ==
    /\ \E t \in ClockReadings : t > p_clock
    /\ p_clock' = CHOOSE t \in ClockReadings :
                     t > p_clock /\ \A u \in ClockReadings : u > p_clock => t <= u
    /\ UNCHANGED <<p_cache, p_pc, p_symbols, p_now, p_final, p_missing,
                   p_fetched>>

\* What a step of the price service leaves alone.
PriceOnly == UNCHANGED <<runnerVars, solVars, routerVars, tonVars, bcVars, nnVars, histVars, amtVars, epVars, upVars, suiVars, btcVars, gasVars, dvVars>>

PriceNext ==
    \/ \E r \in PriceReqs, coins \in CoinSets : PStart(r, coins) /\ PriceOnly
    \/ \E r \in PriceReqs, ans \in BinanceAnswers : PBinance(r, ans) /\ PriceOnly
    \/ \E r \in PriceReqs, ans \in OkxAnswers : POkx(r, ans) /\ PriceOnly
    \/ \E r \in PriceReqs, ans \in CgAnswers : PCoingecko(r, ans) /\ PriceOnly
    \/ \E r \in PriceReqs : PReturn(r) /\ PriceOnly
    \/ PTick /\ PriceOnly

SpecPrices == PriceInit /\ [][PriceNext]_vars

\* ------------------------------------------------------------------------
\* Claims about /prices
\* ------------------------------------------------------------------------

\* The cache holds an entry for s that is younger than the TTL at `now`.
CachedFresh(s, now) ==
    p_cache[s].src # "none" /\ now - p_cache[s].ts < CacheTTL

\* Request r starts in this step.
Starts(r) == p_pc[r] = "idle" /\ p_pc'[r] # "idle"

\* Request r finishes its fetches and answers in this step.
Finishes(r) == p_pc[r] \in {"binance", "okx", "coingecko"} /\ p_pc'[r] = "done"

\* C8: a symbol is served from the cache only if its entry exists and is
\* younger than 15 s at the handler's `now`; a request for a symbol whose
\* entry is absent or 15 s old or older calls an upstream before it
\* answers and does not serve that symbol from the cache; and an entry is
\* only ever rewritten by a request that fetched the symbol, so a hit does
\* not extend its lifetime.
C8_CacheHitOnlyWhenFresh ==
    [][/\ \A r \in PriceReqs :
             Starts(r) =>
                 /\ \A s \in Keys(p_final'[r]) : CachedFresh(s, p_clock)
                 /\ \A s \in p_symbols'[r] :
                        ~CachedFresh(s, p_clock) =>
                            /\ p_pc'[r] = "binance"
                            /\ s \in p_missing'[r]
       /\ \A s \in Symbols :
             p_cache'[s] # p_cache[s] =>
                 \E r \in PriceReqs :
                     /\ Finishes(r)
                     /\ s \in Keys(p_fetched'[r])
                     /\ s \notin Keys(p_final[r])
                     /\ p_cache'[s].ts = p_now[r]]_vars

\* A request read the clock at 15: one symbol was cached 10 s before and
\* is served as a hit, another was cached 15 s before and is sent to
\* Binance.
C8_Witness ==
    \E r \in PriceReqs, s \in Symbols, t \in Symbols :
        /\ p_pc[r] = "binance"
        /\ s \in p_missing[r]
        /\ p_cache[s].src # "none"
        /\ p_now[r] - p_cache[s].ts = CacheTTL
        /\ t \in Keys(p_final[r])
        /\ p_now[r] - p_cache[t].ts = 10

\* The tiers a request can be waiting for.
Tiers == {"binance", "okx", "coingecko"}

\* The state part of C9: what a request that is waiting for a tier asks
\* it for, and where prices come from.
TierOrderState ==
    /\ \A r \in PriceReqs :
          /\ p_pc[r] \in Tiers =>
                /\ p_missing[r] # {}
                /\ p_missing[r] \cap Keys(p_final[r]) = {}
                /\ p_missing[r] \cap Keys(p_fetched[r]) = {}
          /\ p_pc[r] = "binance" => p_fetched[r] = {}
          /\ p_pc[r] = "okx" => \A e \in p_fetched[r] : e.src = "binance"
          /\ p_pc[r] = "coingecko" =>
                \A e \in p_fetched[r] : e.src \in {"binance", "okx"}
          /\ \A e \in p_final[r] \cup p_fetched[r] :
                e.src = "binance" => e.sym \notin Blacklist
    /\ \A s \in Blacklist \cap Symbols : p_cache[s].src # "binance"

\* C9: the tiers are consulted in the order cache, Binance, OKX,
\* CoinGecko: OKX is asked only for symbols that were not cache hits and
\* that Binance did not supply, CoinGecko only for those OKX did not supply
\* either; no tier is contacted when nothing is missing; TRX and XRP are
\* never priced from Binance.
C9_TiersInOrder ==
    [][/\ TierOrderState'
       /\ \A r \in PriceReqs :
             /\ p_pc'[r] = "binance" => p_pc[r] \in {"idle", "binance"}
             /\ p_pc'[r] = "okx" => p_pc[r] \in {"binance", "okx"}
             /\ p_pc'[r] = "coingecko" => p_pc[r] \in {"okx", "coingecko"}
             /\ p_pc[r] = "okx" => p_missing'[r] \subseteq p_missing[r]
             /\ p_pc[r] = "binance" => p_missing'[r] \subseteq p_missing[r]]_vars

\* Binance listed both BTC and TRX; the answer carries BTC from Binance
\* and TRX from OKX.
C9_Witness ==
    \E r \in PriceReqs :
        /\ p_pc[r] = "done"
        /\ [sym |-> <<"BTC">>, src |-> "binance"] \in p_final[r]
        /\ [sym |-> <<"TRX">>, src |-> "okx"] \in p_final[r]

\* C10: the response places each requested symbol in exactly one of
\* `data` and `failed`, and neither holds a symbol that was not requested.
C10_DataFailedPartition ==
    \A r \in PriceReqs :
        p_pc[r] = "done" =>
            /\ Keys(p_final[r]) \cup p_missing[r] = p_symbols[r]
            /\ Keys(p_final[r]) \cap p_missing[r] = {}
            /\ Cardinality(p_final[r]) = Cardinality(Keys(p_final[r]))

\* A response with one symbol priced by the last tier and one failed.
C10_Witness ==
    \E r \in PriceReqs :
        /\ p_pc[r] = "done"
        /\ p_final[r] = {[sym |-> <<"BTC">>, src |-> "coingecko"]}
        /\ p_missing[r] = {<<"ZZZ", "X">>}

\* ------------------------------------------------------------------------
\* Nonce: get_nonce of the EVM adapters against one account
\* The node counts the transactions of the address that are mined and, for
\* the "pending" tag, those waiting in its mempool as well.
\* ------------------------------------------------------------------------

\* Most transactions the account sends.
MaxTxs == 3

\* The chains whose nonce is read with eth_getTransactionCount.
EvmChains == {"ethereum", "arbitrum", "arbitrumnova", "polygon", "smartchain",
              "avalanchec", "classic"}

\* The block tag each adapter's get_nonce passes to eth_getTransactionCount.
NonceTag(adapter) == IF adapter = "etc" THEN "latest" ELSE "pending"

\* eth_getTransactionCount(address, tag) on the node.
TransactionCount(tag) ==
    IF tag = "pending" THEN nn_mined + nn_pool ELSE nn_mined

\* The hexadecimal digits, by value + 1.
HexDigits == <<"0", "1", "2", "3", "4", "5", "6", "7", "8", "9",
               "a", "b", "c", "d", "e", "f">>

\* The digits of n in base 16, most significant first.
RECURSIVE HexOf(_)
HexOf(n) ==
    IF n < 16 THEN <<HexDigits[n + 1]>>
    ELSE HexOf(n \div 16) \o <<HexDigits[(n % 16) + 1]>>

\* The JSON-RPC result for a count: "0x" and its digits.
HexQuantity(n) == <<"0", "x">> \o HexOf(n)

\* The value of one hexadecimal digit.
HexVal(ch) == (CHOOSE k \in 1..16 : HexDigits[k] = ch) - 1

\* int(hex, 16) for a "0x" quantity.
RECURSIVE HexDigitsValue(_, _)
HexDigitsValue(chars, acc) ==
    IF chars = << >> THEN acc
    ELSE HexDigitsValue(Tail(chars), acc * 16 + HexVal(Head(chars)))

IntBase16(chars) == HexDigitsValue(SubSeq(chars, 3, Len(chars)), 0)

\* get_nonce: 0 when the wrapper gave no result, int(result, 16) otherwise.
NonceOf(answer) == IF answer = << >> THEN 0 ELSE IntBase16(answer)

NonceInit ==
    /\ DeviceIdle
    /\ GasIdle
    /\ BtcIdle
    /\ SuiIdle
    /\ UpstreamIdle
    /\ EndpointIdle
    /\ AmountIdle
    /\ HistIdle
    /\ RunnerIdle
    /\ SolIdle
    /\ RouterIdle
    /\ TonIdle
    /\ BcIdle
    /\ PriceIdle
    /\ nn_chain \in EvmChains
    /\ nn_mined = 0
    /\ nn_pool = 0
    /\ nn_pc = "idle"
    /\ nn_answer = << >>
    /\ nn_nonce = 0

\* The wallet broadcasts the account's next transaction; the node keeps it
\* in its mempool.
NnBroadcast ==
    /\ nn_mined + nn_pool < MaxTxs
    /\ nn_pool' = nn_pool + 1
    /\ nn_pc' = "idle"
    /\ UNCHANGED <<nn_chain, nn_mined, nn_answer, nn_nonce>>

\* The oldest waiting transaction is included in a block.
NnMine ==
    /\ nn_pool > 0
    /\ nn_pool' = nn_pool - 1
    /\ nn_mined' = nn_mined + 1
    /\ nn_pc' = "idle"
    /\ UNCHANGED <<nn_chain, nn_answer, nn_nonce>>

\* GET /nonce/{chain}/{address}: the routed adapter asks the node with its
\* tag; the exchange fails (no result) or the node answers.
NnQuery(ok) ==
    /\ LET adapter == Route(nn_chain, "nonce")
           answer == IF ok THEN HexQuantity(TransactionCount(NonceTag(adapter)))
                     ELSE << >>
       IN  /\ nn_answer' = answer
           /\ nn_nonce' = NonceOf(answer)
    /\ nn_pc' = "answered"
    /\ UNCHANGED <<nn_chain, nn_mined, nn_pool>>

\* What a step of the nonce scenario leaves alone.
NonceOnly == UNCHANGED <<runnerVars, solVars, routerVars, tonVars, bcVars, priceVars, histVars, amtVars, epVars, upVars, suiVars, btcVars, gasVars, dvVars>>

NonceNext ==
    \/ NnBroadcast /\ NonceOnly
    \/ NnMine /\ NonceOnly
    \/ \E ok \in BOOLEAN : NnQuery(ok) /\ NonceOnly

SpecNonce == NonceInit /\ [][NonceNext]_vars

\* C11: on every EVM chain the nonce query counts the pending
\* transactions: when the account's last broadcast transaction (nonce n =
\* mined + waiting - 1) is still unconfirmed and the node answers, the
\* query returns n + 1.
C11_NonceCountsPending ==
    (nn_pc = "answered" /\ nn_pool > 0 /\ nn_answer # << >>)
        => nn_nonce = nn_mined + nn_pool

\* ------------------------------------------------------------------------
\* Transaction history: each adapter's parsing loop turns one upstream
\* record into at most one canonical Transfer.
\* ------------------------------------------------------------------------

\* Upstream records one parsing loop goes through in a behaviour.
MaxRecords == 3

\* The history adapters (parsing loops) modelled.
HistoryAdapters == {"xrp", "etc", "etherscan", "sol", "ton", "sui", "bsc"}

\* The address the history is requested for, and a second account.
HistoryAddress == "addr_a"
OtherAddress == "addr_b"

\* str.lower() on the address strings in play ("ADDR_A" is the same EVM
\* account written with capitals).
Lower(s) == IF s = "ADDR_A" THEN "addr_a" ELSE s

\* dict.get(key, default) on an optional field: << >> is a missing key.
Get(field, default) == IF field = << >> THEN default ELSE field[1]

\* A millisecond count as two limbs, hi * 10^6 + lo.
Ms(hi, lo) == [hi |-> hi, lo |-> lo]

\* seconds * 1000
MsOfSeconds(secs) == Ms(secs \div 1000, (secs % 1000) * 1000)

\* int(chars) of a decimal millisecond string.
MsOfDecimal(chars) ==
    IF Len(chars) <= 6 THEN Ms(0, ParseDigits(chars, 10, 0))
    ELSE Ms(ParseDigits(SubSeq(chars, 1, Len(chars) - 6), 10, 0),
            ParseDigits(SubSeq(chars, Len(chars) - 5, Len(chars)), 10, 0))

\* One entry of the list a history adapter returns; status is << >> when
\* the dict has no "status" key.
Transfer(f_addr, t_addr, timestamp, status) ==
    [from |-> f_addr, to |-> t_addr, timestamp |-> timestamp, status |-> status]

\* Offset between Ripple Epoch (2000-01-01) and Unix Epoch in seconds.
RIPPLE_EPOCH_OFFSET == 946684800

\* Sender and receiver of a record the upstream lists for the address:
\* the address sent, received, or sent to itself.
AddressPairs ==
    {<<HistoryAddress, OtherAddress>>, <<OtherAddress, HistoryAddress>>,
     <<HistoryAddress, HistoryAddress>>}

\* The same for an EVM explorer, which may also spell the address with
\* capitals.
EvmAddressPairs == AddressPairs \cup {<<"ADDR_A", OtherAddress>>}

\* Seconds of a block time as the explorers send it, or no such key.
SecondStrings == {<< >>, <<<<"1", "7", "0", "0", "0", "0", "0", "0", "0", "0">>>>}

\* account_tx entries of rippled: meta.TransactionResult, tx.TransactionType,
\* tx.date (seconds since 2000-01-01), tx.Account, tx.Destination, tx.Amount
\* (a string of drops or an issued-currency object).
XrpRecords ==
    [TransactionResult : {"tesSUCCESS", "tecUNFUNDED"},
     TransactionType : {"Payment", "TrustSet"},
     date : {<< >>, <<815000000>>},
     pair : {<<HistoryAddress, OtherAddress>>, <<OtherAddress, HistoryAddress>>},
     Amount : {"str", "dict"}]

\* AnkrProvider._get_xrp_transactions, body of the loop.
XrpTransfer(tx) ==
    IF tx.TransactionResult # "tesSUCCESS" THEN << >>
    ELSE IF tx.TransactionType # "Payment" THEN << >>
    ELSE LET close_time == Get(tx.date, 0)
             timestamp == close_time + RIPPLE_EPOCH_OFFSET
         IN  IF tx.Amount = "dict" THEN << >>
             ELSE <<Transfer(tx.pair[1], tx.pair[2], MsOfSeconds(timestamp), << >>)>>

\* txlist entries of Blockscout: hash, timeStamp, from, to, isError.
EtcRecords ==
    [hash : {<< >>, <<"h">>},
     timeStamp : SecondStrings,
     pair : EvmAddressPairs,
     isError : {"0", "1"}]

\* get_etc_transactions, body of the loop.
EtcTransfer(tx) ==
    IF tx.hash = << >> THEN << >>
    ELSE LET timestamp == MsOfSeconds(ParseDigits(Get(tx.timeStamp, <<"0">>), 10, 0))
             from_addr == Lower(tx.pair[1])
             to_addr == Lower(tx.pair[2])
         IN  <<Transfer(from_addr, to_addr, timestamp, << >>)>>

\* txlist entries of an Etherscan-family explorer.
EtherscanRecords ==
    [timeStamp : SecondStrings,
     pair : EvmAddressPairs,
     isError : {"0", "1"},
     txreceipt_status : {"", "0", "1"}]

\* etherscan.get_transactions, body of the loop.
EtherscanTransfer(tx) ==
    LET status == IF tx.isError = "1" \/ tx.txreceipt_status = "0" THEN 0 ELSE 1
    IN  <<Transfer(tx.pair[1], tx.pair[2],
                   MsOfSeconds(ParseDigits(Get(tx.timeStamp, <<"0">>), 10, 0)),
                   <<status>>)>>

\* int(time.time()) when the Solana loop runs.
TimeNow == 1762000000

\* getTransaction answers: whether a result came back, blockTime (may be
\* null), whether meta is there, meta.err, whether the address is among the
\* account keys, the address's post - pre balance, and the first other
\* account whose balance grew.  A failed transaction moves no funds: it only
\* charges its fee payer.
SolRecords ==
    {r \in [result : BOOLEAN,
            blockTime : {<< >>, <<0>>, <<1700000000>>},
            meta : BOOLEAN,
            err : BOOLEAN,
            my_index : BOOLEAN,
            diff : {0 - 1, 0, 1},
            grew : {<< >>, <<OtherAddress>>}] :
        r.err => (r.diff <= 0 /\ r.grew = << >>)}

\* TatumProvider._get_sol_transactions, body of the parsing loop.
SolTransfer(r) ==
    IF ~r.result THEN << >>
    ELSE LET bt == Get(r.blockTime, 0)
             block_time == IF bt # 0 THEN bt ELSE TimeNow
         IN  IF ~r.meta THEN << >>
             ELSE IF ~r.my_index THEN << >>
             ELSE IF r.diff > 0
                  THEN <<Transfer("", HistoryAddress, MsOfSeconds(block_time), << >>)>>
             ELSE IF r.diff < 0
                  THEN <<Transfer(HistoryAddress, Get(r.grew, ""),
                                  MsOfSeconds(block_time), << >>)>>
             ELSE << >>

\* getTransactions entries of Toncenter: out_msgs (destinations, "" when the
\* message has none), in_msg.source, in_msg.value, utime.
TonRecords ==
    [out_msgs : {<< >>, <<"">>, <<OtherAddress>>, <<HistoryAddress>>,
                 <<OtherAddress, HistoryAddress>>},
     source : {"", OtherAddress},
     value : {0, 5},
     utime : {<< >>, <<1700000000>>}]

\* x or default, for a string.
OrElse(x, default) == IF x = "" THEN default ELSE x

\* get_ton_transactions, body of the loop.
TonTransfer(tx) ==
    LET timestamp == MsOfSeconds(Get(tx.utime, 0))
    IN  IF tx.out_msgs # << >>
        THEN <<Transfer(HistoryAddress, OrElse(tx.out_msgs[1], "Unknown"),
                        timestamp, << >>)>>
        ELSE IF tx.value > 0
        THEN <<Transfer(OrElse(tx.source, "External"), HistoryAddress,
                        timestamp, << >>)>>
        ELSE <<Transfer(OrElse(tx.source, "Unknown"), HistoryAddress,
                        timestamp, << >>)>>

\* One entry of balanceChanges.
SuiChanges ==
    [coinType : {"0x2::sui::SUI", "other"},
     owner : {HistoryAddress, OtherAddress},
     amount : {0 - 2, 3}]

\* suix_queryTransactionBlocks entries: timestampMs, the sender and the
\* balance changes.
SuiRecords ==
    [timestampMs : {<< >>, <<<<"1", "7", "0", "0", "0", "0", "0", "0", "0", "0",
                               "0", "0", "0">>>>},
     sender : {<< >>, <<HistoryAddress>>, <<OtherAddress>>},
     balanceChanges : {<< >>} \cup {<<c>> : c \in SuiChanges}
                         \cup {<<c, d>> : c \in SuiChanges, d \in SuiChanges}]

\* my_change after the loop over balance_changes.
RECURSIVE MyChange(_)
MyChange(changes) ==
    IF changes = << >> THEN 0
    ELSE LET change == Head(changes)
         IN  (IF change.coinType = "0x2::sui::SUI" /\ change.owner = HistoryAddress
              THEN change.amount ELSE 0) + MyChange(Tail(changes))

\* receiver_candidates after the loop over balance_changes.
RECURSIVE ReceiverCandidates(_, _)
ReceiverCandidates(changes, sender) ==
    IF changes = << >> THEN << >>
    ELSE LET change == Head(changes)
         IN  (IF /\ change.coinType = "0x2::sui::SUI"
                 /\ change.amount > 0
                 /\ change.owner # HistoryAddress
                 /\ change.owner # sender
              THEN <<change.owner>> ELSE << >>)
             \o ReceiverCandidates(Tail(changes), sender)

\* The direction get_sui_transactions settles on.
SuiDirection(tx) ==
    LET my_change == MyChange(tx.balanceChanges)
    IN  IF my_change > 0 THEN "incoming"
        ELSE IF my_change < 0 THEN "outgoing"
        ELSE IF Get(tx.sender, "Unknown") = HistoryAddress THEN "outgoing"
        ELSE "unknown"

\* The counterparty get_sui_transactions settles on.
SuiOtherAddr(tx) ==
    LET sender == Get(tx.sender, "Unknown")
        my_change == MyChange(tx.balanceChanges)
        receiver_candidates == ReceiverCandidates(tx.balanceChanges, sender)
    IN  IF my_change > 0 THEN sender
        ELSE IF my_change < 0
        THEN IF receiver_candidates # << >> THEN receiver_candidates[1]
             ELSE "Contract/Gas"
        ELSE "Interaction"

\* get_sui_transactions, body of the parsing loop.
SuiTransfer(tx) ==
    LET timestamp == MsOfDecimal(Get(tx.timestampMs, <<"0">>))
        direction == SuiDirection(tx)
        other_addr == SuiOtherAddr(tx)
    IN  <<Transfer(IF direction = "outgoing" THEN HistoryAddress ELSE other_addr,
                   IF direction = "outgoing" THEN other_addr ELSE HistoryAddress,
                   timestamp, << >>)>>

\* v4/data/transaction/history entries of Tatum: transactionSubtype, address,
\* counterAddress, timestamp (a number of milliseconds, may be missing).
BscRecords ==
    [transactionSubtype : {"incoming", "outgoing"},
     address : {HistoryAddress},
     counterAddress : {HistoryAddress, OtherAddress},
     timestamp : {<< >>, <<Ms(1700000, 0)>>}]

\* TatumProvider._get_bsc_transactions, body of the loop (native history).
BscTransfer(tx) ==
    LET is_incoming == tx.transactionSubtype = "incoming"
    IN  <<Transfer(IF is_incoming THEN tx.counterAddress ELSE tx.address,
                   IF is_incoming THEN tx.address ELSE tx.counterAddress,
                   Get(tx.timestamp, Ms(0, 0)), << >>)>>

\* What the upstream of an adapter may list.
UpstreamRecords(adapter) ==
    CASE adapter = "xrp" -> XrpRecords
      [] adapter = "etc" -> EtcRecords
      [] adapter = "etherscan" -> EtherscanRecords
      [] adapter = "sol" -> SolRecords
      [] adapter = "ton" -> TonRecords
      [] adapter = "sui" -> SuiRecords
      [] adapter = "bsc" -> BscRecords
      [] OTHER -> {}

\* What the adapter's loop appends for one upstream record.
Formats(adapter, rec) ==
    CASE adapter = "xrp" -> XrpTransfer(rec)
      [] adapter = "etc" -> EtcTransfer(rec)
      [] adapter = "etherscan" -> EtherscanTransfer(rec)
      [] adapter = "sol" -> SolTransfer(rec)
      [] adapter = "ton" -> TonTransfer(rec)
      [] adapter = "sui" -> SuiTransfer(rec)
      [] adapter = "bsc" -> BscTransfer(rec)
      [] OTHER -> << >>

HistInit ==
    /\ DeviceIdle
    /\ GasIdle
    /\ BtcIdle
    /\ SuiIdle
    /\ UpstreamIdle
    /\ EndpointIdle
    /\ AmountIdle
    /\ RunnerIdle
    /\ SolIdle
    /\ RouterIdle
    /\ TonIdle
    /\ BcIdle
    /\ PriceIdle
    /\ NonceIdle
    /\ HistIdle

\* The history of the address is requested and the upstream list arrives.
HRequest(adapter) ==
    /\ h_pc \in {"idle", "returned"}
    /\ h_pc' = "listing"
    /\ h_adapter' = adapter
    /\ h_rec' = << >>
    /\ h_emit' = << >>
    /\ h_n' = 0
    /\ h_len' = 0

\* One turn of the parsing loop.
HRecord(rec) ==
    /\ h_pc = "listing"
    /\ h_n < MaxRecords
    /\ h_rec' = <<rec>>
    /\ h_emit' = Formats(h_adapter, rec)
    /\ h_n' = h_n + 1
    /\ h_len' = h_len + Len(h_emit')
    /\ UNCHANGED <<h_pc, h_adapter>>

\* return formatted
HReturn ==
    /\ h_pc = "listing"
    /\ h_pc' = "returned"
    /\ UNCHANGED <<h_adapter, h_rec, h_emit, h_n, h_len>>

\* What a step of the history scenario leaves alone.
HistOnly == UNCHANGED <<runnerVars, solVars, routerVars, tonVars, bcVars, priceVars, nnVars, amtVars, epVars, upVars, suiVars, btcVars, gasVars, dvVars>>

HistNext ==
    \/ \E adapter \in HistoryAdapters : HRequest(adapter) /\ HistOnly
    \/ \E rec \in UpstreamRecords(h_adapter) : HRecord(rec) /\ HistOnly
    \/ HReturn /\ HistOnly

SpecHistory == HistInit /\ [][HistNext]_vars

\* The loop has just appended a Transfer.
Emitted == h_pc = "listing" /\ h_emit # << >>

\* The Transfer's address is the requested one (EVM spellings compared
\* without case).
IsOwner(addr) == Lower(addr) = Lower(HistoryAddress)

\* The adapter settled on a direction for the record it parsed last.
KnownDirection ==
    h_adapter = "sui" => SuiDirection(h_rec[1]) # "unknown"

\* C12: every Transfer a history adapter produces with a known direction
\* has exactly one of its from and to equal to the address the history was
\* requested for.
C12_FromXorToOwner ==
    (Emitted /\ KnownDirection)
        => (IsOwner(h_emit[1].from) # IsOwner(h_emit[1].to))

\* C13: every Transfer's timestamp is exactly 0 or a millisecond value of
\* at least 10^12, whatever the upstream record's time field holds.
C13_TimestampZeroOrMillis ==
    Emitted => (h_emit[1].timestamp = Ms(0, 0) \/ h_emit[1].timestamp.hi >= 1000000)

\* The upstream marks the record as rejected on chain.
RejectedOnChain ==
    /\ h_rec # << >>
    /\ CASE h_adapter = "xrp" -> h_rec[1].TransactionResult # "tesSUCCESS"
         [] h_adapter = "etc" -> h_rec[1].isError = "1"
         [] h_adapter = "etherscan" ->
                h_rec[1].isError = "1" \/ h_rec[1].txreceipt_status = "0"
         [] h_adapter = "sol" -> h_rec[1].err
         [] OTHER -> FALSE

\* C14: a transaction rejected on chain is left out of the list or is
\* listed with status 0.
C14_FailedAbsentOrStatusZero ==
    (h_pc = "listing" /\ RejectedOnChain /\ h_emit # << >>)
        => h_emit[1].status = <<0>>

\* ------------------------------------------------------------------------
\* Amount codec: to_standard_amount on decimal digit strings.
\* ------------------------------------------------------------------------

\* Significant digits of the raw values drawn.
MaxDigits == 2

\* Zeros that may follow them (the value is the digits times 10^k).
MaxShift == 10

\* The largest decimals setting of a coin entry.
MaxDecimals == 18

\* ALLOW_TOKENS by name; "none" is a call without contract, "unlisted" a
\* contract that is not in the list.
TokenDecimals(token) ==
    CASE token = "USDT-ERC20" -> <<6>>
      [] token = "Arbitrum" -> <<18>>
      [] token = "USDC-BEP20" -> <<18>>
      [] token = "TWT-BEP20" -> <<18>>
      [] token = "USDT-TRC20" -> <<6>>
      [] OTHER -> << >>

Tokens == {"USDT-ERC20", "Arbitrum", "USDC-BEP20", "TWT-BEP20", "USDT-TRC20", "unlisted"}

\* A call's contract together with what the registry holds for its chain:
\* no entry (<< >>) or an entry with some decimals.
DecimalsSources ==
    {[token |-> t, coin |-> << >>] : t \in Tokens}
        \cup {[token |-> "none", coin |-> c] :
                c \in {<< >>} \cup {<<d>> : d \in 0..MaxDecimals}}

\* Step 1 of to_standard_amount: decimals, << >> for None.
ResolveDecimals(src) ==
    IF src.token # "none" THEN TokenDecimals(src.token) ELSE src.coin

\* error_mark
ErrorMark == <<"-", "0", ".", "0", "0", "0", "0", "0", "0">>

\* The literal "0.000000" returned for an empty value.
EmptyAmount == <<"0", ".", "0", "0", "0", "0", "0", "0">>

\* Decimal(val_str): the digits of a string of decimal digits.
DigitsOf(chars) == [i \in 1..Len(chars) |-> HexVal(chars[i])]

\* The characters of a digit sequence.
CharsOf(digits) == [i \in 1..Len(digits) |-> HexDigits[digits[i] + 1]]

Zeros(k) == [i \in 1..k |-> 0]

\* A digit sequence without its leading zeros (one digit is kept).
RECURSIVE StripZeros(_)
StripZeros(digits) ==
    IF Len(digits) > 1 /\ digits[1] = 0 THEN StripZeros(Tail(digits)) ELSE digits

\* The digit sequence plus one.
RECURSIVE AddOne(_)
AddOne(digits) ==
    IF digits = << >> THEN <<1>>
    ELSE IF digits[Len(digits)] < 9
         THEN [digits EXCEPT ![Len(digits)] = @ + 1]
         ELSE AddOne(SubSeq(digits, 1, Len(digits) - 1)) \o <<0>>

\* ROUND_HALF_EVEN: whether dropping `dropped` behind `kept` rounds up.
RoundsUp(kept, dropped) ==
    /\ dropped # << >>
    /\ \/ dropped[1] > 5
       \/ /\ dropped[1] = 5
          /\ \/ \E i \in 2..Len(dropped) : dropped[i] # 0
             \/ kept[Len(kept)] % 2 = 1

\* The power of ten of a value that is passed through undivided.
ExponentPassThrough(decimals, force_raw) == 0

\* human_value: the power of ten the digits are divided by.
Exponent(decimals, force_raw) == IF force_raw THEN decimals ELSE 0

\* format(digits / 10^exponent, f'.{precision}f')
FormatFixed(digits, exponent, precision) ==
    LET padded == IF Len(digits) < exponent + 1
                  THEN Zeros(exponent + 1 - Len(digits)) \o digits
                  ELSE digits
        cut == IF exponent > precision THEN exponent - precision ELSE 0
        kept == IF exponent > precision
                THEN SubSeq(padded, 1, Len(padded) - cut)
                ELSE padded \o Zeros(precision - exponent)
        dropped == SubSeq(padded, Len(padded) - cut + 1, Len(padded))
        q == IF RoundsUp(kept, dropped) THEN AddOne(kept) ELSE kept
        int_part == StripZeros(SubSeq(q, 1, Len(q) - precision))
        frac_part == SubSeq(q, Len(q) - precision + 1, Len(q))
    IN  CharsOf(int_part)
            \o (IF precision > 0 THEN <<".">> \o CharsOf(frac_part) ELSE << >>)

\* to_standard_amount(raw_value, chain_key, contract, force_raw) for a raw
\* value that is None (<< >>) or a string of decimal digits.
ToStandardAmount(raw_value, src, force_raw) ==
    LET decimals == ResolveDecimals(src)
    IN  IF decimals = << >> THEN ErrorMark
        ELSE IF raw_value = << >> THEN EmptyAmount
        ELSE FormatFixed(DigitsOf(raw_value), Exponent(decimals[1], force_raw),
                         Min(decimals[1], 8))

\* Position of the decimal point in a rendered amount, 0 when it has none.
PointAt(chars) ==
    IF \E i \in 1..Len(chars) : chars[i] = "."
    THEN CHOOSE i \in 1..Len(chars) : chars[i] = "."
    ELSE 0

\* The smallest-unit value a rendered amount stands for: the amount times
\* 10^decimals, as a digit string.
SmallestUnits(chars, decimals) ==
    LET point == PointAt(chars)
        int_chars == IF point = 0 THEN chars ELSE SubSeq(chars, 1, point - 1)
        frac_chars == IF point = 0 THEN << >>
                      ELSE SubSeq(chars, point + 1, Len(chars))
    IN  CharsOf(StripZeros(DigitsOf(int_chars \o frac_chars)
                               \o Zeros(decimals - Len(frac_chars))))

\* str(raw_value) of the non-negative integers drawn: up to MaxDigits
\* significant digits followed by up to MaxShift zeros.
Mantissas ==
    UNION {[1..n -> {"0", "1", "4", "5", "9"}] : n \in 1..MaxDigits}

RawValues ==
    {<<"0">>} \cup
    {m \o CharsOf(Zeros(k)) : m \in {x \in Mantissas : x[1] # "0"}, k \in 0..MaxShift}

AmountInit ==
    /\ DeviceIdle
    /\ GasIdle
    /\ BtcIdle
    /\ SuiIdle
    /\ UpstreamIdle
    /\ EndpointIdle
    /\ RunnerIdle
    /\ SolIdle
    /\ RouterIdle
    /\ TonIdle
    /\ BcIdle
    /\ PriceIdle
    /\ NonceIdle
    /\ HistIdle
    /\ a_pc = "new"
    /\ a_raw \in RawValues \cup {<< >>}
    /\ a_src \in DecimalsSources
    /\ a_force \in BOOLEAN
    /\ a_out = << >>
    /\ a_back = << >>
    /\ a_again = << >>

\* An adapter renders the value.
ARender ==
    /\ a_pc = "new"
    /\ a_out' = ToStandardAmount(a_raw, a_src, a_force)
    /\ a_pc' = "rendered"
    /\ UNCHANGED <<a_raw, a_src, a_force, a_back, a_again>>

\* The reader of a rendered smallest-unit value takes it back to smallest
\* units.
AParse ==
    /\ a_pc = "rendered"
    /\ a_force
    /\ a_raw # << >>
    /\ ResolveDecimals(a_src) # << >>
    /\ a_back' = SmallestUnits(a_out, ResolveDecimals(a_src)[1])
    /\ a_pc' = "parsed"
    /\ UNCHANGED <<a_raw, a_src, a_force, a_out, a_again>>

\* The value read back is rendered again.
ARenderAgain ==
    /\ a_pc = "parsed"
    /\ a_again' = ToStandardAmount(a_back, a_src, a_force)
    /\ a_pc' = "again"
    /\ UNCHANGED <<a_raw, a_src, a_force, a_out, a_back>>

\* What a step of the amount scenario leaves alone.
AmountOnly == UNCHANGED <<runnerVars, solVars, routerVars, tonVars, bcVars, priceVars, nnVars, histVars, epVars, upVars, suiVars, btcVars, gasVars, dvVars>>

AmountNext ==
    \/ ARender /\ AmountOnly
    \/ AParse /\ AmountOnly
    \/ ARenderAgain /\ AmountOnly

SpecAmount == AmountInit /\ [][AmountNext]_vars

\* C18: the raw value 0 is rendered as "0.000000" whatever the chain, the
\* contract and force_raw are (for a chain or contract whose decimals are
\* configured).
C18_ZeroIsSixZeros ==
    (a_pc = "rendered" /\ a_raw = <<"0">> /\ ResolveDecimals(a_src) # << >>)
        => a_out = EmptyAmount

EndpointOps == {"balance", "resource", "transactions", "utxo", "fee", "nonce",
                "gas", "block", "tx"}

\* The read operations among them.
ReadOps == {"balance", "transactions", "utxo", "fee", "nonce", "gas", "block"}

\* How a `_request` call can end: a 2xx answer, a fatal status or an
\* unexpected exception, or every attempt ending in 429, 5xx or a timeout.
UpstreamEnds == {"json", "fatal", "exhausted"}

\* What `_request` returns to the adapter method.
RequestResult(end) == IF end = "json" THEN "json" ELSE "None"

\* TatumProvider._chain_map.get(key, key) for the keys of ALLOW_COINS.
ChainMap(key) ==
    CASE key = "smartchain" -> "bsc"
      [] key = "polygon" -> "matic"
      [] key = "doge" -> "dogecoin"
      [] key = "ripple" -> "xrp"
      [] key = "bitcoincash" -> "bcash"
      [] key = "avalanchec" -> "avalanche"
      [] key = "classic" -> "etc"
      [] key = "arbitrum" -> "arb"
      [] OTHER -> key

\* TatumProvider._get_tatum_chain
TatumChain(key) == IF key \notin AllowCoins THEN "None" ELSE ChainMap(key)

\* Whether the Tatum method behind `op` reaches a `_request` call.
TatumCalls(op, chain, contract) ==
    CASE op = "balance" -> TatumChain(chain) # "None"
      [] op = "resource" -> chain = "tron"
      [] op = "transactions" ->
            TatumChain(chain) \in {"tron", "bsc", "bcash", "ton", "solana",
                                   "ethereum", "polygon", "bitcoin",
                                   "litecoin", "dogecoin"}
      [] op = "utxo" -> TatumChain(chain) # "None"
      [] op = "fee" -> chain \in {"bitcoin", "bitcoincash"}
      [] op = "nonce" -> TatumChain(chain) # "None"
      [] op = "gas" -> TRUE
      [] op = "block" -> TatumChain(chain) # "None" /\ chain \in {"tron", "solana"}
      [] OTHER -> FALSE

\* TatumProvider.get_balance
TatumBalance(chain, contract, res) ==
    LET t_chain_path == TatumChain(chain)
    IN  IF t_chain_path = "None" THEN "-0.000000"
        ELSE IF t_chain_path \in {"tron", "bcash", "ton"}
             THEN IF res = "None" THEN "-0.000000" ELSE "amount"
        ELSE IF contract
             THEN IF res = "None" THEN "raises" ELSE "amount"
        ELSE IF res = "None" THEN "-0.000000" ELSE "amount"

\* What the Tatum method behind `op` returns when its `_request` call (if
\* it makes one) returned `res`.
TatumReturns(op, chain, contract, res) ==
    CASE op = "balance" -> TatumBalance(chain, contract, res)
      [] op = "resource" ->
            IF chain # "tron" \/ res = "None" THEN "{}" ELSE "dict"
      [] op = "transactions" ->
            IF ~TatumCalls(op, chain, contract) \/ res = "None" THEN "[]" ELSE "list"
      [] op = "utxo" ->
            IF TatumChain(chain) = "None" \/ res = "None" THEN "[]" ELSE "list"
      [] op = "fee" ->
            IF chain = "bitcoin" THEN (IF res = "None" THEN "None" ELSE "dict")
            ELSE IF chain = "bitcoincash" THEN "dict"
            ELSE "{}"
      [] op = "nonce" ->
            IF TatumChain(chain) = "None" \/ res = "None" THEN "0" ELSE "int"
      [] op = "gas" -> "dict"
      [] op = "block" ->
            IF ~TatumCalls(op, chain, contract) \/ res = "None" THEN "{}" ELSE "dict"
      [] OTHER -> "None"

\* dash.get_balance: a dict whether or not the Insight call answered.
DashBalance(res) == "dict"

\* BlockchainService.get_tx_details awaits self.provider.get_transaction;
\* BlockchainManager has no such method.
ManagerHasGetTransaction == FALSE

\* The requests modelled: those the manager routes to Tatum, the Dash
\* balance, and GET /tx.
Modelled(op, chain) ==
    \/ op = "tx"
    \/ op # "tx" /\ Route(chain, op) = "tatum"
    \/ op = "balance" /\ chain = "dash"

\* Whether the request reaches an upstream call.
CallsUpstream(op, chain, contract) ==
    IF op = "tx" THEN ManagerHasGetTransaction
    ELSE IF Route(chain, op) = "dash" THEN TRUE
    ELSE TatumCalls(op, chain, contract)

\* What the service method returns to the route function ("raises" when
\* an exception leaves it).
ServiceReturns(op, chain, contract, res) ==
    IF op = "tx" THEN (IF ManagerHasGetTransaction THEN res ELSE "raises")
    ELSE IF Route(chain, op) = "dash" THEN DashBalance(res)
    ELSE LET ret == TatumReturns(op, chain, contract, res)
         IN  IF op = "resource" /\ ret = "{}" THEN "dict" ELSE ret

\* `not x` on what a service method returns.
Falsy(ret) == ret \in {"{}", "[]", "None", "0", ""}

\* The status the route function (or FastAPI, for an exception that
\* leaves it) answers with.
EndpointStatus(op, ret) ==
    IF ret = "raises" THEN 500
    ELSE IF op = "block" /\ Falsy(ret) THEN 502
    ELSE IF op = "tx" /\ Falsy(ret) THEN 404
    ELSE 200

EndpointInit ==
    /\ DeviceIdle
    /\ GasIdle
    /\ BtcIdle
    /\ SuiIdle
    /\ UpstreamIdle
    /\ RunnerIdle
    /\ SolIdle
    /\ RouterIdle
    /\ TonIdle
    /\ BcIdle
    /\ PriceIdle
    /\ NonceIdle
    /\ HistIdle
    /\ AmountIdle
    /\ EndpointIdle

\* A request arrives at a route function.
EpRequest(op, chain, contract) ==
    /\ ep_pc \in {"idle", "answered"}
    /\ Modelled(op, chain)
    /\ ep_pc' = "handling"
    /\ ep_op' = op
    /\ ep_chain' = chain
    /\ ep_contract' = contract
    /\ ep_calls' = 0
    /\ ep_up' = "none"
    /\ ep_ret' = "none"
    /\ ep_http' = 0

\* The method returns without an upstream call.
EpNoUpstream ==
    /\ ep_pc = "handling"
    /\ ~CallsUpstream(ep_op, ep_chain, ep_contract)
    /\ ep_ret' = ServiceReturns(ep_op, ep_chain, ep_contract, "None")
    /\ ep_pc' = "returned"
    /\ UNCHANGED <<ep_op, ep_chain, ep_contract, ep_calls, ep_up, ep_http>>

\* The method makes its upstream call, which ends, and returns.
EpUpstream(end) ==
    /\ ep_pc = "handling"
    /\ CallsUpstream(ep_op, ep_chain, ep_contract)
    /\ ep_calls' = ep_calls + 1
    /\ ep_up' = end
    /\ ep_ret' = ServiceReturns(ep_op, ep_chain, ep_contract, RequestResult(end))
    /\ ep_pc' = "returned"
    /\ UNCHANGED <<ep_op, ep_chain, ep_contract, ep_http>>

\* The route function answers.
EpRespond ==
    /\ ep_pc = "returned"
    /\ ep_http' = EndpointStatus(ep_op, ep_ret)
    /\ ep_pc' = "answered"
    /\ UNCHANGED <<ep_op, ep_chain, ep_contract, ep_calls, ep_up, ep_ret>>

\* What a step at the endpoints leaves alone.
EndpointOnly == UNCHANGED <<runnerVars, solVars, routerVars, tonVars, bcVars, priceVars, nnVars, histVars, amtVars, upVars, suiVars, btcVars, gasVars, dvVars>>

EndpointNext ==
    \/ \E op \in EndpointOps, chain \in Chains, contract \in BOOLEAN :
            EpRequest(op, chain, contract) /\ EndpointOnly
    \/ EpNoUpstream /\ EndpointOnly
    \/ \E end \in UpstreamEnds : EpUpstream(end) /\ EndpointOnly
    \/ EpRespond /\ EndpointOnly

SpecEndpoint == EndpointInit /\ [][EndpointNext]_vars

\* C15: a read request whose upstream attempts all ended in 429, 5xx or a
\* timeout is answered with HTTP 502.
C15_ExhaustedIs502 ==
    (ep_pc = "answered" /\ ep_op \in ReadOps /\ ep_up = "exhausted")
        => ep_http = 502

\* C16: a request naming a chain key that is not a supported chain is
\* answered with HTTP 400 and makes no upstream call.
C16_UnsupportedChainIs400 ==
    (ep_pc = "answered" /\ ep_chain \notin AllowCoins)
        => (ep_http = 400 /\ ep_calls = 0)

\* C17: GET /tx/{chain}/{tx_id} ends with the details (200) or with 404,
\* nothing else.
C17_TxDetailsOr404 ==
    (ep_pc = "answered" /\ ep_op = "tx") => ep_http \in {200, 404}

\* ------------------------------------------------------------------------
\* The retry loop of `_request`, step by step (SpecRunner)
\* ------------------------------------------------------------------------

\* The call is in one of the sleeps of the retry loop.
InBackoff(c) == pc[c] \in {"backoff_try", "backoff_exc"}

\* The sleeps a 429 or a 500/502/503/504 on attempt `a` may ask for.
StatusSleeps(a) ==
    {SleepSeconds429(h, a) : h \in RetryAfterHeaders} \cup {ServerErrorSleep}

\* C20 as first stated: every sleep of the retry loop is followed by
\* another attempt.
C20_SleepThenAttempt ==
    [][\A c \in Callers :
          (InBackoff(c) /\ pc'[c] # pc[c] /\ result'[c] # "CancelledError")
              => pc'[c] = "http"]_vars

\* One step of a call through the retry loop.
C20_Step ==
    \A c \in Callers :
        /\ pc[c] = "http" => pc'[c] \in {"http", "backoff_try", "backoff_exc", "done"}
        /\ (pc[c] = "http" /\ pc'[c] = "done")
               => result'[c] \in {"json", "None", "CancelledError"}
        /\ (pc[c] = "http" /\ pc'[c] = "backoff_try")
               => /\ sleep_seconds'[c] \in StatusSleeps(attempt[c])
                  /\ attempt'[c] = attempt[c]
        /\ (pc[c] = "http" /\ pc'[c] = "backoff_exc")
               => /\ sleep_seconds'[c] = NetworkErrorSleep
                  /\ attempt[c] < MaxRetry - 1
                  /\ attempt'[c] = attempt[c]
        /\ (InBackoff(c) /\ pc'[c] = "http")
               => /\ attempt'[c] = attempt[c] + 1
                  /\ attempt'[c] < MaxRetry
        /\ (InBackoff(c) /\ pc'[c] = "done")
               => \/ result'[c] = "CancelledError"
                  \/ /\ attempt[c] = MaxRetry - 1
                     /\ result'[c] = "None"

\* C20: an attempt ends the call at once (2xx, fatal 4xx, other exception,
\* timeout on the third attempt) or is followed by a sleep of
\* Retry-After + 1.5^attempt (429), 1 s (5xx) or 2 s (timeout before the
\* third attempt); the sleep is followed by another attempt when fewer than
\* three were made and by the end of the call, without a result, after the
\* third; no call makes more than 3 attempts.
C20_RetryLoop ==
    /\ [](\A c \in Callers : Sent(c) <= MaxRetry)
    /\ [][C20_Step]_vars

\* The third attempt of a call ended in 429 or 5xx and the call sleeps.
C20_Witness ==
    \E c \in Callers : pc[c] = "backoff_try" /\ attempt[c] = MaxRetry - 1

\* ------------------------------------------------------------------------
\* Upstream calls of the adapters: which of them wait for a semaphore and
\* which of them repeat a request.

\* The helpers that send an HTTP request upstream: `_request` of Tatum and
\* Ankr, `_rpc_post` of the AVAX and BSC modules, the history functions of
\* those two modules, and `_request` of Toncenter.
UpstreamPaths ==
    {"tatum", "ankr", "avax_rpc", "avax_history", "bsc_rpc", "bsc_history",
     "toncenter"}

\* asyncio.Semaphore(10) of the AVAX and BSC RPC helpers.
RpcSemCapacity == 10

\* asyncio.Semaphore(5) of Toncenter.
TonSemCapacity == 5

\* Slots of the semaphore a helper enters before its request; 0 when the
\* helper enters none.
UpSemaphore(path) ==
    CASE path \in {"tatum", "ankr"} -> SemCapacity
      [] path \in {"avax_rpc", "bsc_rpc"} -> RpcSemCapacity
      [] path = "toncenter" -> TonSemCapacity
      [] OTHER -> 0

\* The semaphore object a helper uses: both RPC helpers and the history
\* functions are module functions, each module with its own object.
UpHolders(path) == Cardinality({r \in UpCalls : u_path[r] = path /\ u_holds[r]})

\* Requests a helper sends at most for one call: the loop of Tatum and Ankr
\* runs `_max_retry` times, the other helpers send once.
UpAttempts(path) == IF path \in {"tatum", "ankr"} THEN MaxRetry ELSE 1

\* How an HTTP request ends: an answer, a transient fault (429, 5xx,
\* timeout) or a fatal one.
UpOutcomes == {"ok", "transient", "fatal"}

UpInit ==
    /\ DeviceIdle
    /\ GasIdle
    /\ BtcIdle
    /\ SuiIdle
    /\ RunnerIdle
    /\ SolIdle
    /\ RouterIdle
    /\ TonIdle
    /\ BcIdle
    /\ PriceIdle
    /\ NonceIdle
    /\ HistIdle
    /\ AmountIdle
    /\ EndpointIdle
    /\ UpstreamIdle

\* An adapter calls a helper.
UpCall(r, path) ==
    /\ u_pc[r] = "idle"
    /\ u_path' = [u_path EXCEPT ![r] = path]
    /\ u_pc' = [u_pc EXCEPT ![r] = IF UpSemaphore(path) > 0 THEN "entered" ELSE "ready"]
    /\ UNCHANGED <<u_holds, u_sent, u_last>>

\* `async with sem`: the call gets a slot.
UpAdmit(r) ==
    /\ u_pc[r] = "entered"
    /\ UpHolders(u_path[r]) < UpSemaphore(u_path[r])
    /\ u_holds' = [u_holds EXCEPT ![r] = TRUE]
    /\ u_pc' = [u_pc EXCEPT ![r] = "ready"]
    /\ UNCHANGED <<u_path, u_sent, u_last>>

\* The helper sends its HTTP request.
UpSend(r) ==
    /\ u_pc[r] = "ready"
    /\ u_sent' = [u_sent EXCEPT ![r] = @ + 1]
    /\ u_pc' = [u_pc EXCEPT ![r] = "http"]
    /\ UNCHANGED <<u_path, u_holds, u_last>>

\* The request ends; the helper repeats it or returns, leaving the
\* semaphore it entered.
UpRespond(r, o) ==
    /\ u_pc[r] = "http"
    /\ u_last' = [u_last EXCEPT ![r] = o]
    /\ IF o = "transient" /\ u_sent[r] < UpAttempts(u_path[r])
       THEN /\ u_pc' = [u_pc EXCEPT ![r] = "ready"]
            /\ UNCHANGED u_holds
       ELSE /\ u_pc' = [u_pc EXCEPT ![r] = "done"]
            /\ u_holds' = [u_holds EXCEPT ![r] = FALSE]
    /\ UNCHANGED <<u_path, u_sent>>

\* What a step of an upstream call leaves alone.
UpOnly == UNCHANGED <<runnerVars, solVars, routerVars, tonVars, bcVars, priceVars, nnVars, histVars, amtVars, epVars, suiVars, btcVars, gasVars, dvVars>>

UpNext ==
    \/ \E r \in UpCalls, path \in UpstreamPaths : UpCall(r, path) /\ UpOnly
    \/ \E r \in UpCalls : UpAdmit(r) /\ UpOnly
    \/ \E r \in UpCalls : UpSend(r) /\ UpOnly
    \/ \E r \in UpCalls, o \in UpOutcomes : UpRespond(r, o) /\ UpOnly

SpecUpstream == UpInit /\ [][UpNext]_vars

\* C21: every upstream HTTP request is sent while the call holds a slot of
\* a semaphore, and a call whose request ended in a transient fault has
\* repeated it up to the retry limit before it returns.
C21_SlotAndRetryEverywhere ==
    \A r \in UpCalls :
        /\ u_pc[r] = "http" => u_holds[r]
        /\ (u_pc[r] = "done" /\ u_last[r] = "transient") => u_sent[r] = MaxRetry

\* ------------------------------------------------------------------------
\* Sui history: merge by digest, sort by timestampMs, keep the first
\* `limit`.

\* Largest limit of a request.
MaxLimit == 2

\* Transaction blocks the node knows: a digest and timestampMs, a decimal
\* string given by its digits, << >> where the block carries none.
SuiTxs ==
    {[digest |-> "d1", timestampMs |-> <<1, 0>>],
     [digest |-> "d2", timestampMs |-> <<9>>],
     [digest |-> "d3", timestampMs |-> <<9>>],
     [digest |-> "d4", timestampMs |-> << >>]}

\* Answers to one query: at most `limit` blocks, no block twice; the
\* query failed ("None") or carries the list.
SuiLists(limit) ==
    UNION {{l \in [1..n -> SuiTxs] : \A j, k \in 1..n : j # k => l[j] # l[k]}
              : n \in 0..limit}

\* int() of a decimal string.
RECURSIVE IntOfDigits(_, _)
IntOfDigits(digits, acc) ==
    IF digits = << >> THEN acc
    ELSE IntOfDigits(Tail(digits), acc * 10 + Head(digits))

\* The sort key: int(x.get("timestampMs", 0)).
TimestampKey(tx) ==
    IF tx.timestampMs = << >> THEN 0 ELSE IntOfDigits(tx.timestampMs, 0)

\* raw_list: the data of the answers that have any, From before To.
RawList(res_from, res_to) ==
    (IF res_from.st = "data" THEN res_from.data ELSE << >>)
        \o (IF res_to.st = "data" THEN res_to.data ELSE << >>)

\* unique_txs[digest] = tx over raw_list: a dict keeps a key at the place of
\* its first insertion and the value of its last.
RECURSIVE UniqueTxs(_, _)
UniqueTxs(raw_list, acc) ==
    IF raw_list = << >> THEN acc
    ELSE LET tx == Head(raw_list)
             at == {k \in 1..Len(acc) : acc[k].digest = tx.digest}
         IN  IF tx.digest = "" THEN UniqueTxs(Tail(raw_list), acc)
             ELSE IF at = {} THEN UniqueTxs(Tail(raw_list), Append(acc, tx))
             ELSE UniqueTxs(Tail(raw_list),
                            [acc EXCEPT ![CHOOSE k \in at : TRUE] = tx])

\* The list left as the dict gave it.
SortedTxsNot(txs) == txs

\* sorted(..., key, reverse=True): descending by key, blocks of equal key
\* in the order they had.
RECURSIVE SortedTxs(_)
SortedTxs(txs) ==
    IF txs = << >> THEN << >>
    ELSE LET n == Len(txs)
             rest == SortedTxs(SubSeq(txs, 1, n - 1))
             p == Cardinality({k \in 1..(n - 1) :
                                  TimestampKey(rest[k]) >= TimestampKey(txs[n])})
         IN  SubSeq(rest, 1, p) \o <<txs[n]>> \o SubSeq(rest, p + 1, n - 1)

\* final_txs = sorted_txs[:limit]
FinalTxs(res_from, res_to, limit) ==
    LET sorted_txs == SortedTxs(UniqueTxs(RawList(res_from, res_to), << >>))
    IN  SubSeq(sorted_txs, 1, Min(limit, Len(sorted_txs)))

SuiInit ==
    /\ DeviceIdle
    /\ GasIdle
    /\ BtcIdle
    /\ UpstreamIdle
    /\ RunnerIdle
    /\ SolIdle
    /\ RouterIdle
    /\ TonIdle
    /\ BcIdle
    /\ PriceIdle
    /\ NonceIdle
    /\ HistIdle
    /\ AmountIdle
    /\ EndpointIdle
    /\ SuiIdle

\* A history request starts both queries.
SuiCall(limit) ==
    /\ s_pc \in {"idle", "done"}
    /\ s_pc' = "queries"
    /\ s_limit' = limit
    /\ s_from' = [st |-> "pending", data |-> << >>]
    /\ s_to' = [st |-> "pending", data |-> << >>]
    /\ s_out' = << >>

\* The FromAddress query ends.
SuiFromAnswer(st, data) ==
    /\ s_pc = "queries"
    /\ s_from.st = "pending"
    /\ s_from' = [st |-> st, data |-> IF st = "data" THEN data ELSE << >>]
    /\ UNCHANGED <<s_pc, s_limit, s_to, s_out>>

\* The ToAddress query ends.
SuiToAnswer(st, data) ==
    /\ s_pc = "queries"
    /\ s_to.st = "pending"
    /\ s_to' = [st |-> st, data |-> IF st = "data" THEN data ELSE << >>]
    /\ UNCHANGED <<s_pc, s_limit, s_from, s_out>>

\* asyncio.gather has both answers: merge, sort, cut.
SuiMerge ==
    /\ s_pc = "queries"
    /\ s_from.st # "pending"
    /\ s_to.st # "pending"
    /\ s_out' = FinalTxs(s_from, s_to, s_limit)
    /\ s_pc' = "done"
    /\ UNCHANGED <<s_limit, s_from, s_to>>

\* What a step of the Sui history leaves alone.
SuiOnly == UNCHANGED <<runnerVars, solVars, routerVars, tonVars, bcVars, priceVars, nnVars, histVars, amtVars, epVars, upVars, btcVars, gasVars, dvVars>>

SuiNext ==
    \/ \E limit \in 1..MaxLimit : SuiCall(limit) /\ SuiOnly
    \/ \E st \in {"data", "None"}, data \in SuiLists(s_limit) :
           SuiFromAnswer(st, data) /\ SuiOnly
    \/ \E st \in {"data", "None"}, data \in SuiLists(s_limit) :
           SuiToAnswer(st, data) /\ SuiOnly
    \/ SuiMerge /\ SuiOnly

SpecSui == SuiInit /\ [][SuiNext]_vars

\* The blocks of the two answers.
SuiUnion ==
    {s_from.data[k] : k \in 1..Len(s_from.data)}
        \cup {s_to.data[k] : k \in 1..Len(s_to.data)}

MaxSats == 2

\* The decimals the registry holds for the chains of the BTC family.
BtcDecimals == 8

\* Answers of GET /v3/{chain}/address/balance/{address}.
BtcAnswers ==
    [ok : {TRUE}, incoming : 0..MaxSats, outgoing : 0..MaxSats,
     incomingPending : 0..MaxSats, outgoingPending : (0 - 1)..MaxSats]

\* str() of a natural number, as digits.
RECURSIVE NatDigits(_)
NatDigits(n) == IF n < 10 THEN <<n>> ELSE Append(NatDigits(n \div 10), n % 10)

\* final_balance of _get_btc_balance.
FinalBalance(res) ==
    LET confirmed_balance == res.incoming - res.outgoing
        current_balance == confirmed_balance + res.incomingPending
        final_balance == IF res.outgoingPending > 0
                         THEN current_balance
                         ELSE current_balance - res.outgoingPending
    IN  IF final_balance < 0 THEN 0 ELSE final_balance

\* to_standard_amount(final_balance, chain_key, contract) of an amount of
\* `units` * 10^-8 coin: format(value, '.8f').
BtcDisplay(units) ==
    FormatFixed(NatDigits(units), BtcDecimals, Min(BtcDecimals, 8))

\* _get_btc_balance on an answer.
GetBtcBalance(res) ==
    IF ~res.ok THEN ErrorMark ELSE BtcDisplay(FinalBalance(res))

BtcInit ==
    /\ DeviceIdle
    /\ GasIdle
    /\ SuiIdle
    /\ UpstreamIdle
    /\ RunnerIdle
    /\ SolIdle
    /\ RouterIdle
    /\ TonIdle
    /\ BcIdle
    /\ PriceIdle
    /\ NonceIdle
    /\ HistIdle
    /\ AmountIdle
    /\ EndpointIdle
    /\ BtcIdle

\* A balance request reaches _get_btc_balance.
BtcCall ==
    /\ b_pc \in {"idle", "done"}
    /\ b_pc' = "asked"
    /\ b_out' = << >>
    /\ UNCHANGED b_res

\* `_request` returned None.
BtcFails ==
    /\ b_pc = "asked"
    /\ b_res' = [b_res EXCEPT !.ok = FALSE]
    /\ b_out' = GetBtcBalance(b_res')
    /\ b_pc' = "done"

\* `_request` returned the answer.
BtcAnswer(res) ==
    /\ b_pc = "asked"
    /\ b_res' = res
    /\ b_out' = GetBtcBalance(res)
    /\ b_pc' = "done"

\* What a step of the balance leaves alone.
BtcOnly == UNCHANGED <<runnerVars, solVars, routerVars, tonVars, bcVars, priceVars, nnVars, histVars, amtVars, epVars, upVars, suiVars, gasVars, dvVars>>

BtcNext ==
    \/ BtcCall /\ BtcOnly
    \/ BtcFails /\ BtcOnly
    \/ \E res \in BtcAnswers : BtcAnswer(res) /\ BtcOnly

SpecBtc == BtcInit /\ [][BtcNext]_vars

\* C24: the balance shown is max(0, incoming - outgoing + incomingPending),
\* whatever outgoingPending is.
C24_OutgoingPendingIgnored ==
    (b_pc = "done" /\ b_res.ok) =>
        b_out = BtcDisplay(Max(0, b_res.incoming - b_res.outgoing
                                      + b_res.incomingPending))

\* ------------------------------------------------------------------------
\* Gas estimate of the adapters that ask a node for eth_gasPrice. A price
\* in wei is kept as two limbs, hi * 10^6 + lo.

Wei(hi, lo) == [hi |-> hi, lo |-> lo]

\* Chains whose estimate comes from bsc_rpc, avax_rpc and etc.
GasChains == {"smartchain", "avalanchec", "classic"}

\* min_gas_price of bsc_rpc (3000000000), min_price of avax_rpc
\* (25000000000) and the default of etc (1000000000).
GasFloor(chain) ==
    CASE chain = "smartchain" -> Wei(3000, 0)
      [] chain = "avalanchec" -> Wei(25000, 0)
      [] chain = "classic" -> Wei(1000, 0)

\* eth_gasPrice results: 0, 1 wei, each floor and its neighbours, 2, 5,
\* 10, 30, 50 and 100 Gwei.
GasPriceResults ==
    {<<"0", "x", "0">>, <<"0", "x", "1">>,
     <<"0", "x", "3", "b", "9", "a", "c", "9", "f", "f">>,
     <<"0", "x", "3", "b", "9", "a", "c", "a", "0", "0">>,
     <<"0", "x", "3", "b", "9", "a", "c", "a", "0", "1">>,
     <<"0", "x", "b", "2", "d", "0", "5", "d", "f", "f">>,
     <<"0", "x", "b", "2", "d", "0", "5", "e", "0", "0">>,
     <<"0", "x", "b", "2", "d", "0", "5", "e", "0", "1">>,
     <<"0", "x", "5", "d", "2", "1", "d", "b", "9", "f", "f">>,
     <<"0", "x", "5", "d", "2", "1", "d", "b", "a", "0", "0">>,
     <<"0", "x", "5", "d", "2", "1", "d", "b", "a", "0", "1">>,
     <<"0", "x", "1", "2", "a", "0", "5", "f", "2", "0", "0">>,
     <<"0", "x", "6", "f", "c", "2", "3", "a", "c", "0", "0">>,
     <<"0", "x", "1", "7", "4", "8", "7", "6", "e", "8", "0", "0">>,
     <<"0", "x", "7", "7", "3", "5", "9", "4", "0", "0">>,
     <<"0", "x", "2", "5", "4", "0", "b", "e", "4", "0", "0">>,
     <<"0", "x", "b", "a", "4", "3", "b", "7", "4", "0", "0">>}

\* What the request helper hands to get_estimate_gas: nothing usable (a
\* failed call, an error body) or the result string.
GasAnswers == {<< >>} \cup {<<hex>> : hex \in GasPriceResults}

\* int(hex, 16) over the digits behind "0x".
RECURSIVE WeiOfHexDigits(_, _)
WeiOfHexDigits(chars, acc) ==
    IF chars = << >> THEN acc
    ELSE LET lo16 == acc.lo * 16 + HexVal(Head(chars))
         IN  WeiOfHexDigits(Tail(chars),
                            Wei(acc.hi * 16 + lo16 \div 1000000, lo16 % 1000000))

WeiOfHex(hex) == WeiOfHexDigits(SubSeq(hex, 3, Len(hex)), Wei(0, 0))

WeiLess(a, b) == a.hi < b.hi \/ (a.hi = b.hi /\ a.lo < b.lo)

\* max(a, b)
WeiMax(a, b) == IF WeiLess(a, b) THEN b ELSE a

\* str() of a price.
WeiString(v) ==
    LET lo == NatDigits(v.lo)
    IN  CharsOf(StripZeros(NatDigits(v.hi) \o Zeros(6 - Len(lo)) \o lo))

\* The price kept as it stands, without a floor.
GasPriceUnfloored(chain, answer) ==
    IF answer = << >> THEN GasFloor(chain) ELSE WeiOfHex(answer[1])

\* The price of get_estimate_gas: bsc_rpc and avax_rpc take the maximum of
\* the result and the floor; etc takes the result when there is one.
GasPrice(chain, answer) ==
    LET current_price == IF answer = << >> THEN GasFloor(chain)
                         ELSE WeiOfHex(answer[1])
    IN  IF chain = "classic" THEN current_price
        ELSE WeiMax(current_price, GasFloor(chain))

\* safe_limit
GasLimit(contract) == IF contract THEN 100000 ELSE 21000

GasInit ==
    /\ DeviceIdle
    /\ BtcIdle
    /\ SuiIdle
    /\ UpstreamIdle
    /\ RunnerIdle
    /\ SolIdle
    /\ RouterIdle
    /\ TonIdle
    /\ BcIdle
    /\ PriceIdle
    /\ NonceIdle
    /\ HistIdle
    /\ AmountIdle
    /\ EndpointIdle
    /\ GasIdle

\* A request for an estimate sends eth_gasPrice.
GasCall(chain, contract) ==
    /\ g_pc \in {"idle", "done"}
    /\ g_pc' = "asked"
    /\ g_chain' = chain
    /\ g_contract' = contract
    /\ g_result' = << >>
    /\ g_out' = [gasPrice |-> << >>, gasLimit |-> 0]

\* The call ends and the estimate is returned.
GasAnswer(answer) ==
    /\ g_pc = "asked"
    /\ g_result' = answer
    /\ g_out' = [gasPrice |-> WeiString(GasPrice(g_chain, answer)),
                 gasLimit |-> GasLimit(g_contract)]
    /\ g_pc' = "done"
    /\ UNCHANGED <<g_chain, g_contract>>

\* What a step of the estimate leaves alone.
GasOnly == UNCHANGED <<runnerVars, solVars, routerVars, tonVars, bcVars, priceVars, nnVars, histVars, amtVars, epVars, upVars, suiVars, btcVars, dvVars>>

GasNext ==
    \/ \E chain \in GasChains, contract \in BOOLEAN :
           GasCall(chain, contract) /\ GasOnly
    \/ \E answer \in GasAnswers : GasAnswer(answer) /\ GasOnly

SpecGas == GasInit /\ [][GasNext]_vars

\* C25: the gasPrice of an estimate is max(eth_gasPrice result, floor of
\* the chain), the floor itself when the call gave no result.
C25_GasPriceAtLeastFloor ==
    g_pc = "done" =>
        g_out.gasPrice = WeiString(WeiMax(GasPriceUnfloored(g_chain, g_result),
                                          GasFloor(g_chain)))

\* ------------------------------------------------------------------------
\* The price cache under concurrent requests

\* C26: the timestamp of a cached symbol never decreases: a request that
\* started earlier and finished later does not put an older timestamp over
\* the entry a later-started request wrote.
C26_CacheTimestampNeverDecreases ==
    [][\A s \in Symbols :
           p_cache[s].src # "none" => p_cache'[s].ts >= p_cache[s].ts]_vars

\* ------------------------------------------------------------------------
\* Termination of the runner's calls. Every HTTP attempt ends (the client
\* has a timeout), every asyncio.sleep ends, time passes, and a caller
\* waiting at a semaphore with a free slot gets it; cancellation may or may
\* not happen.

RunnerFairness ==
    /\ WF_vars(Tick /\ RunnerOnly)
    /\ \A c \in Callers :
          /\ SF_vars(Admit(c) /\ RunnerOnly)
          /\ WF_vars(SpacingWake(c) /\ RunnerOnly)
          /\ WF_vars(BackoffWake(c) /\ RunnerOnly)
          /\ WF_vars(\E o \in Outcomes, h \in RetryAfterHeaders :
                         Respond(c, o, h) /\ RunnerOnly)

SpecRunnerFair == RunnerInit /\ [][RunnerNext]_vars /\ RunnerFairness

\* C27: a call sends at most MaxRetry HTTP requests; a call that has ended
\* holds no slot, whichever way it ended, and the semaphore counts exactly
\* the slots held; and from some point on no call is left waiting for
\* admission or in flight: every caller that waited was admitted (or
\* cancelled) and every admitted call ended.
C27_CallsEndAndRelease ==
    /\ [](\A c \in Callers : Sent(c) <= MaxRetry)
    /\ [](\A c \in Callers : pc[c] = "done" => ~holds[c])
    /\ [](sem = SemCapacity - Cardinality({c \in Callers : holds[c]}))
    /\ <>[](\A c \in Callers : pc[c] \in {"idle", "done"})

\* All three callers have ended without a cancellation, one with an answer,
\* one on a fatal status or after its last attempt, and the semaphore is
\* whole again.
C27_Witness ==
    /\ \A c \in Callers : pc[c] = "done" /\ cancelledIn[c] = "none"
    /\ \E c \in Callers : result[c] = "json"
    /\ \E c \in Callers : result[c] = "None"
    /\ sem = SemCapacity

\* ------------------------------------------------------------------------
\* TON account of an address whose state could not be read

\* C28: a record with is_deployed false and seqno 0 is returned only when
\* getAddressInformation answered and the state it gave is not "active";
\* a failed getAddressInformation call does not end in such a record.
C28_UndeployedOnlyWhenReported ==
    (/\ ton_pc = "done"
     /\ ton_result.kind = "record"
     /\ ~ton_result.is_deployed
     /\ ton_result.seqno = 0)
        => (~InfoMissing(ton_info) /\ InfoState(ton_info) # "active")

\* ------------------------------------------------------------------------
\* Device: signing a transaction after review on the screen. The main loop
\* handles one event at a time; the signing worker is a thread of its own.

\* _send_success / _send_error for request r.
Responded(responses, r) == [responses EXCEPT ![r] = @ + 1]

\* ctx.change_state(MenuState(ctx))
ToMenu ==
    /\ d_kind' = "menu"
    /\ d_req' = 0
    /\ d_form' = "none"
    /\ d_signing' = FALSE

\* The guard of a handler that starts a worker at every press.
StartsWorkerAlways(is_signing) == TRUE

\* _start_signing_thread: `if self.is_signing: return`.
StartsWorker(is_signing) == ~is_signing

DeviceInit ==
    /\ GasIdle
    /\ BtcIdle
    /\ SuiIdle
    /\ UpstreamIdle
    /\ RunnerIdle
    /\ SolIdle
    /\ RouterIdle
    /\ TonIdle
    /\ BcIdle
    /\ PriceIdle
    /\ NonceIdle
    /\ HistIdle
    /\ AmountIdle
    /\ EndpointIdle
    /\ DeviceIdle

\* handle_packet for a sign_tx packet: refused while a TransactionSignState
\* is the current state or when a check fails; otherwise the state is
\* built (its constructor reports a format error through on_error) and
\* becomes the current state.
DvSignTx(valid, format_ok) ==
    /\ d_next \in SignReqs
    /\ d_next' = d_next + 1
    /\ IF d_kind = "sign" \/ ~valid
       THEN /\ d_responses' = Responded(d_responses, d_next)
            /\ UNCHANGED <<d_kind, d_req, d_form, d_signing, d_opened>>
       ELSE /\ d_kind' = "sign"
            /\ d_req' = d_next
            /\ d_form' = IF format_ok THEN "review" ELSE "error"
            /\ d_signing' = FALSE
            /\ d_opened' = d_opened \cup {d_next}
            /\ d_responses' = IF format_ok THEN d_responses
                              ELSE Responded(d_responses, d_next)
    /\ UNCHANGED <<d_confirmed, d_signed, d_workers, d_events>>

\* KEYDOWN Enter on the TransactionSignState: _start_signing_thread in
\* review, error_exit_handler after a format error.
DvConfirm ==
    /\ d_kind = "sign"
    /\ IF d_form = "review"
       THEN /\ d_confirmed' = d_confirmed \cup {d_req}
            /\ IF StartsWorker(d_signing)
               THEN /\ d_signing' = TRUE
                    /\ d_signed' = [d_signed EXCEPT ![d_req] = @ + 1]
                    /\ d_workers' = d_workers \cup {d_req}
               ELSE UNCHANGED <<d_signing, d_signed, d_workers>>
            /\ UNCHANGED <<d_kind, d_req, d_form>>
       ELSE /\ ToMenu
            /\ UNCHANGED <<d_confirmed, d_signed, d_workers>>
    /\ UNCHANGED <<d_next, d_responses, d_opened, d_events>>

\* KEYDOWN Esc on the TransactionSignState: _reject_tx in review (also
\* while the worker runs), error_exit_handler after a format error.
DvReject ==
    /\ d_kind = "sign"
    /\ d_responses' = IF d_form = "review" THEN Responded(d_responses, d_req)
                      ELSE d_responses
    /\ ToMenu
    /\ UNCHANGED <<d_next, d_opened, d_confirmed, d_signed, d_workers, d_events>>

\* draw(): more than timeout_ms since the state was built and no signing
\* under way.
DvTimeout ==
    /\ d_kind = "sign"
    /\ ~d_signing
    /\ d_responses' = Responded(d_responses, d_req)
    /\ ToMenu
    /\ UNCHANGED <<d_next, d_opened, d_confirmed, d_signed, d_workers, d_events>>

\* _signing_worker: sign_transaction returned or raised; the event is
\* posted.
DvWorkerPosts(w, status) ==
    /\ w \in d_workers
    /\ d_workers' = d_workers \ {w}
    /\ d_events' = Append(d_events, [of |-> w, status |-> status])
    /\ UNCHANGED <<d_kind, d_req, d_form, d_signing, d_next, d_responses,
                   d_opened, d_confirmed, d_signed>>

\* The main loop takes EVENT_SIGN_WORKER_DONE and hands it to the current
\* state; a TransactionSignState answers through its own callbacks and
\* goes to the menu, any other state ignores the event.
DvWorkerDone ==
    /\ d_events # << >>
    /\ d_events' = Tail(d_events)
    /\ IF d_kind = "sign"
       THEN /\ d_responses' = Responded(d_responses, d_req)
            /\ ToMenu
       ELSE UNCHANGED <<d_kind, d_req, d_form, d_signing, d_responses>>
    /\ UNCHANGED <<d_next, d_opened, d_confirmed, d_signed, d_workers>>

\* EVENT_BLE_PAIRING_REQUEST: the main loop puts a PairingRequestState in
\* place of the current state.
DvPairingRequest ==
    /\ d_kind # "pairing"
    /\ d_kind' = "pairing"
    /\ d_req' = 0
    /\ d_form' = "none"
    /\ d_signing' = FALSE
    /\ UNCHANGED <<d_next, d_responses, d_opened, d_confirmed, d_signed,
                   d_workers, d_events>>

\* EVENT_BLE_PAIRING_CANCELLED while the pairing screen is shown.
DvPairingOver ==
    /\ d_kind = "pairing"
    /\ ToMenu
    /\ UNCHANGED <<d_next, d_responses, d_opened, d_confirmed, d_signed,
                   d_workers, d_events>>

\* What a step of the device leaves alone.
DeviceOnly == UNCHANGED <<runnerVars, solVars, routerVars, tonVars, bcVars, priceVars, nnVars, histVars, amtVars, epVars, upVars, suiVars, btcVars, gasVars>>

DeviceNext ==
    \/ \E valid \in BOOLEAN, format_ok \in BOOLEAN :
           DvSignTx(valid, format_ok) /\ DeviceOnly
    \/ DvConfirm /\ DeviceOnly
    \/ DvReject /\ DeviceOnly
    \/ DvTimeout /\ DeviceOnly
    \/ \E w \in SignReqs, status \in {"success", "error"} :
           DvWorkerPosts(w, status) /\ DeviceOnly
    \/ DvWorkerDone /\ DeviceOnly
    \/ DvPairingRequest /\ DeviceOnly
    \/ DvPairingOver /\ DeviceOnly

SpecDevice == DeviceInit /\ [][DeviceNext]_vars

\* The main loop runs: a posted event is handled, the timeout is noticed
\* when no key comes first; a signing thread ends. Keys, packets and
\* pairing requests may or may not come.
DeviceFairness ==
    /\ WF_vars(DvTimeout /\ DeviceOnly)
    /\ WF_vars(DvWorkerDone /\ DeviceOnly)
    /\ \A w \in SignReqs :
          WF_vars(\E status \in {"success", "error"} :
                      DvWorkerPosts(w, status) /\ DeviceOnly)

SpecDeviceFair == DeviceInit /\ [][DeviceNext]_vars /\ DeviceFairness

\* C29: sign_transaction is called for a request only after the confirm
\* key was pressed on the state built for that request, and at most once
\* per request; a sign_tx packet that arrives while a TransactionSignState
\* is the current state is answered with an error and leaves the state and
\* the request under review as they are.
C29_SignOnlyAfterConfirm ==
    /\ [](\A r \in SignReqs :
             /\ d_signed[r] <= 1
             /\ d_signed[r] > 0 => (r \in d_confirmed /\ r \in d_opened))
    /\ [][(d_kind = "sign" /\ d_next' # d_next)
              => /\ d_kind' = "sign"
                 /\ d_req' = d_req
                 /\ d_form' = d_form
                 /\ d_signing' = d_signing
                 /\ d_next \notin d_opened'
                 /\ d_responses'[d_next] = 1
                 /\ d_signed' = d_signed]_vars

\* The first request is being signed after two presses of the confirm key,
\* and the second packet, which came during the review, was refused.
C29_Witness ==
    /\ d_kind = "sign"
    /\ d_req = 1
    /\ d_signing
    /\ d_signed[1] = 1
    /\ d_next > 2
    /\ 2 \notin d_opened
    /\ d_responses[2] = 1

\* C30: every request that opened a TransactionSignState gets exactly one
\* response: never more than one, and in the end one.
C30_ExactlyOneResponse ==
    /\ [](\A r \in SignReqs : r \in d_opened => d_responses[r] <= 1)
    /\ \A r \in SignReqs : (r \in d_opened) ~> (d_responses[r] >= 1)

====
